---- MODULE Spec2Model ----
(***************************************************************************)
(* A model of clspv's SPIRVProducerPass (src/lib/SPIRVProducerPass.cpp):   *)
(* the module pass that translates an LLVM module into a flat list of      *)
(* SPIR-V instructions.  The pass object's fields are the variables, each  *)
(* phase that runOnModule calls is one action, and the LLVM module that is *)
(* translated is drawn in Init from a bounded family of kernels.           *)
(***************************************************************************)
EXTENDS Integers, Sequences, FiniteSets, TLC

\* ------------------------------------------------------------------------
\* Bounds of the model.
\* ------------------------------------------------------------------------

\* The longest kernel argument list in the family of input modules.
MaxArgs == 2
\* The largest small byte value of a <4 x i8> constant's elements (the
\* elements range over 0..MaxByte, TopByte and undef).
MaxByte == 0

\* ------------------------------------------------------------------------
\* Sequences, UniqueVector and DenseMap.
\* ------------------------------------------------------------------------

Contains(seq, x) == \E i \in 1..Len(seq) : seq[i] = x

\* llvm::UniqueVector::idFor: the 1-based position, 0 when absent.
IdFor(uv, x) == IF Contains(uv, x) THEN CHOOSE i \in 1..Len(uv) : uv[i] = x ELSE 0

\* llvm::UniqueVector::insert.
UVInsert(uv, x) == IF Contains(uv, x) THEN uv ELSE Append(uv, x)

\* DenseMap: count, operator[] read (a missing key reads as 0), assignment.
Count(m, k) == IF k \in DOMAIN m THEN 1 ELSE 0
Get(m, k) == IF k \in DOMAIN m THEN m[k] ELSE 0
Put(m, k, v) == [x \in (DOMAIN m) \cup {k} |-> IF x = k THEN v ELSE m[x]]
EmptyMap == [x \in {} |-> 0]

\* The sequences that enumerate a finite set once each: the orders in which
\* a pointer-keyed DenseMap may be iterated.
Orders(S) == {o \in [1..Cardinality(S) -> S] : \A x \in S : \E i \in DOMAIN o : o[i] = x}

RECURSIVE SeqOfSet(_)
SeqOfSet(S) == IF S = {} THEN <<>> ELSE LET x == CHOOSE y \in S : TRUE IN <<x>> \o SeqOfSet(S \ {x})

\* ------------------------------------------------------------------------
\* LLVM types.
\* ------------------------------------------------------------------------

VoidTy == [k |-> "void"]
IntTy(w) == [k |-> "int", w |-> w]
FloatTy == [k |-> "float", w |-> 32]
PtrTy(e, as) == [k |-> "ptr", elem |-> e, as |-> as]
StructTy(elems) == [k |-> "struct", elems |-> elems, name |-> "", opaque |-> FALSE]
OpaqueTy(name) == [k |-> "struct", elems |-> <<>>, name |-> name, opaque |-> TRUE]
ArrayTy(e, n) == [k |-> "array", elem |-> e, n |-> n]
VecTy(e, n) == [k |-> "vec", elem |-> e, n |-> n]
FuncTy(ret, params) == [k |-> "func", ret |-> ret, params |-> params]

LabelTy == [k |-> "label"]
I1 == IntTy(1)
I8 == IntTy(8)
I32 == IntTy(32)
V4I8 == VecTy(I8, 4)
ImageTypeNames == {"opencl.image2d_ro_t", "opencl.image2d_wo_t", "opencl.image3d_ro_t", "opencl.image3d_wo_t"}

IsPointerTy(ty) == ty.k = "ptr"
IsOpaqueStruct(ty) == ty.k = "struct" /\ ty.opaque
IsLocalPtr(ty) == ty.k = "ptr" /\ ty.as = "Local"
is4xi8vec(ty) == ty.k = "vec" /\ ty.elem = I8 /\ ty.n = 4

\* llvm::Type::subtypes(): the contained types, a function's return type first.
Subtypes(ty) ==
  CASE ty.k = "ptr" -> <<ty.elem>>
    [] ty.k = "array" -> <<ty.elem>>
    [] ty.k = "vec" -> <<ty.elem>>
    [] ty.k = "struct" -> ty.elems
    [] ty.k = "func" -> <<ty.ret>> \o ty.params
    [] OTHER -> <<>>

\* DataLayout::getTypeAllocSize, in bytes, for the types of the family.
RECURSIVE TypeAllocSize(_)
TypeAllocSize(ty) ==
  CASE ty.k = "int" -> IF ty.w <= 8 THEN 1 ELSE ty.w \div 8
    [] ty.k = "float" -> ty.w \div 8
    [] ty.k = "ptr" -> 4
    [] ty.k = "vec" -> ty.n * TypeAllocSize(ty.elem)
    [] ty.k = "array" -> ty.n * TypeAllocSize(ty.elem)
    [] ty.k = "struct" -> IF Len(ty.elems) = 0 THEN 0 ELSE TypeAllocSize(ty.elems[1]) + TypeAllocSize([ty EXCEPT !.elems = Tail(@)])
    [] OTHER -> 0

\* ------------------------------------------------------------------------
\* LLVM values: constants, arguments, instructions, globals, functions.
\* ------------------------------------------------------------------------

\* 1/pi, the factor of acospi, asinpi and atan2pi, as its decimal text.
kOneOverPi == "0.318309886183790671538"
CInt(ty, v) == [vk |-> "cint", ty |-> ty, v |-> v]
CFP(ty, fv) == [vk |-> "cfp", ty |-> ty, fv |-> fv]
Undef(ty) == [vk |-> "undef", ty |-> ty]
CAZ(ty) == [vk |-> "caz", ty |-> ty]
CDS(ty, elems) == [vk |-> "cds", ty |-> ty, elems |-> elems]
CVec(ty, cops) == [vk |-> "cvec", ty |-> ty, cops |-> cops]
ArgV(f, i) == [vk |-> "arg", f |-> f, i |-> i]
InstV(f, b, i) == [vk |-> "inst", f |-> f, b |-> b, i |-> i]
BlockV(f, b) == [vk |-> "bb", f |-> f, b |-> b]
\* The variable made for argument idx of kernel f (named f.arg.idx).
ArgGV(f, idx) == [vk |-> "arggv", f |-> f, idx |-> idx]
FuncV(name) == [vk |-> "func", name |-> name]

IsConstant(v) == v.vk \in {"cint", "cfp", "undef", "caz", "cds", "cvec"}

\* ConstantVector::get for four i8 elements, each a ConstantInt or an
\* UndefValue: LLVM keeps one canonical constant per value, an UndefValue
\* when every element is undef, a ConstantAggregateZero when every element
\* is zero, a ConstantDataVector when every element is an integer, and a
\* ConstantVector (a ConstantAggregate) otherwise.
Vec4(cops) ==
  IF \A i \in 1..4 : cops[i].vk = "undef" THEN Undef(V4I8)
  ELSE IF \A i \in 1..4 : cops[i].vk = "cint" /\ cops[i].v = 0 THEN CAZ(V4I8)
  ELSE IF \A i \in 1..4 : cops[i].vk = "cint" THEN CDS(V4I8, [i \in 1..4 |-> cops[i].v])
  ELSE CVec(V4I8, cops)

\* An LLVM instruction: its opcode, result type, operands, and for a call
\* the name of the called function ("" otherwise).
Inst(op, ty, ops, callee) == [op |-> op, ty |-> ty, ops |-> ops, callee |-> callee]
Load(ty, p) == Inst("load", ty, <<p>>, "")
Store(v, p) == Inst("store", VoidTy, <<v, p>>, "")
GEP(ty, p, idx) == Inst("getelementptr", ty, <<p, idx>>, "")
Add(ty, a, b) == Inst("add", ty, <<a, b>>, "")
Alloca(ty) == Inst("alloca", ty, <<CInt(I32, 1)>>, "")
Call(name, ty, args) == Inst("call", ty, args \o <<FuncV(name)>>, name)
RetVoid == Inst("ret", VoidTy, <<>>, "")
\* A branch keeps its successors as operands, the condition first and the
\* true successor last; a phi keeps its incoming values as operands and its
\* incoming blocks beside them.
Br(f, b) == Inst("br", VoidTy, <<BlockV(f, b)>>, "")
CondBr(c, f, t, e) == Inst("br", VoidTy, <<c, BlockV(f, e), BlockV(f, t)>>, "")
Phi(ty, vals, f, bbs) == [op |-> "phi", ty |-> ty, ops |-> vals, callee |-> "", blocks |-> [i \in 1..Len(bbs) |-> BlockV(f, bbs[i])]]

\* ------------------------------------------------------------------------
\* The family of input modules.  A module is its functions and its global
\* variables; a function is [name, kernel, ret, args, blocks], args being
\* the argument types and blocks the instruction lists of its basic blocks.
\* ------------------------------------------------------------------------

Func(name, kernel, args, body) == [name |-> name, kernel |-> kernel, ret |-> VoidTy, args |-> args, blocks |-> <<body \o <<RetVoid>> >>]
CFGFunc(name, kernel, args, blocks) == [name |-> name, kernel |-> kernel, ret |-> VoidTy, args |-> args, blocks |-> blocks]
Module(funcs) == [funcs |-> funcs, globals |-> <<>>]

\* A kernel argument of the family: its type and the way the body uses it.
ArgKinds ==
  { [ty |-> PtrTy(I32, "Global"), use |-> "none"],
    [ty |-> PtrTy(I32, "Global"), use |-> "load"],
    [ty |-> PtrTy(I32, "Global"), use |-> "gep"],
    [ty |-> PtrTy(I32, "Constant"), use |-> "none"],
    [ty |-> PtrTy(I32, "Constant"), use |-> "load"],
    [ty |-> PtrTy(I8, "Global"), use |-> "load"],
    [ty |-> PtrTy(I32, "Local"), use |-> "none"],
    [ty |-> PtrTy(I32, "Local"), use |-> "load"],
    [ty |-> PtrTy(FloatTy, "Local"), use |-> "none"],
    [ty |-> I32, use |-> "add"] }

\* The instructions by which a body uses argument i, the body holding base
\* instructions already.
Fragment(kind, f, i, base) ==
  CASE kind.use = "load" -> <<Load(kind.ty.elem, ArgV(f, i))>>
    [] kind.use = "gep" -> <<GEP(kind.ty, ArgV(f, i), CInt(I32, 1)), GEP(kind.ty, InstV(f, 1, base + 1), CInt(I32, 1)),
                             Load(kind.ty.elem, InstV(f, 1, base + 2))>>
    [] kind.use = "add" -> <<Add(kind.ty, ArgV(f, i), ArgV(f, i))>>
    [] OTHER -> <<>>

RECURSIVE BodyOf(_, _, _, _)
BodyOf(kinds, f, i, acc) ==
  IF i > Len(kinds) THEN acc
  ELSE BodyOf(kinds, f, i + 1, acc \o Fragment(kinds[i], f, i, Len(acc)))

KernelOf(kinds) == Func("foo", TRUE, [i \in 1..Len(kinds) |-> kinds[i].ty], BodyOf(kinds, "foo", 1, <<>>))

ArgListModules == {Module(<<KernelOf(kinds)>>) : kinds \in UNION {[1..n -> ArgKinds] : n \in 0..MaxArgs}}

\* Kernels that store a <4 x i8> constant, alone or after an i32 constant
\* whose value a packed vector may share.
\* (The model's integers are 32-bit signed: with bytes of at most TopByte a
\* packed word stays below 2^31 and is computed exactly.)
TopByte == 128 - 1
ByteElems == {Undef(I8)} \cup {CInt(I8, b) : b \in (0..MaxByte) \cup {TopByte}}
Vec4Kernel(cops, withInt) ==
  Func("foo", TRUE, <<PtrTy(V4I8, "Global")>>,
       (IF withInt THEN <<Add(I32, CInt(I32, TopByte), CInt(I32, TopByte))>> ELSE <<>>)
       \o <<Store(Vec4(cops), ArgV("foo", 1))>>)
Vec4Modules == {Module(<<Vec4Kernel(cops, w)>>) : cops \in [1..4 -> ByteElems], w \in BOOLEAN}

\* Kernels with two uses, in either order, of constants that pack to the
\* same word: a vector with an undef element, the vector with 0 in its
\* place, and the i32 constant of the packed value.
SameWordUses ==
  {<<Store(Vec4(<<Undef(I8), CInt(I8, 0), CInt(I8, 0), CInt(I8, TopByte)>>), ArgV("foo", 1))>>,
   <<Store(Vec4(<<CInt(I8, 1), CInt(I8, 0), CInt(I8, 0), CInt(I8, TopByte)>>), ArgV("foo", 1))>>,
   <<Store(Vec4(<<CInt(I8, 0), CInt(I8, 0), CInt(I8, 0), CInt(I8, TopByte)>>), ArgV("foo", 1))>>,
   <<Add(I32, CInt(I32, TopByte), CInt(I32, TopByte))>>}
Vec4PairModules ==
  {Module(<<Func("foo", TRUE, <<PtrTy(V4I8, "Global")>>, a \o b)>>) : a \in SameWordUses, b \in SameWordUses}

\* Kernels with several basic blocks: loops whose header is or is not the
\* latch, a loop inside a loop, a selection, and a loop with two exits.
\* The phis of a block come first, one or two of them.
CFGModules ==
  LET B(b) == BlockV("foo", b)
      T == CInt(I1, 1)
      one == CInt(I32, 1)
      phis(n, v, pb, pv) == [k \in 1..n |-> Phi(I32, <<CInt(I32, 0), v>>, "foo", <<pb, pv>>)]
      self(n) == <<<<Br("foo", 2)>>,
                   phis(n, InstV("foo", 2, n + 1), 1, 2) \o <<Add(I32, InstV("foo", 2, 1), one), CondBr(T, "foo", 2, 3)>>,
                   <<RetVoid>>>>
      two(n) == <<<<Br("foo", 2)>>,
                  phis(n, InstV("foo", 3, 1), 1, 3) \o <<CondBr(T, "foo", 3, 4)>>,
                  <<Add(I32, InstV("foo", 2, 1), one), Br("foo", 2)>>,
                  <<RetVoid>>>>
      three == <<<<Br("foo", 2)>>, <<Br("foo", 3)>>, <<Add(I32, one, one), Br("foo", 4)>>,
                 <<CondBr(T, "foo", 5, 2)>>, <<RetVoid>>>>
      nested == <<<<Br("foo", 2)>>, <<Br("foo", 3)>>, <<CondBr(T, "foo", 3, 4)>>,
                  <<CondBr(T, "foo", 2, 5)>>, <<RetVoid>>>>
      select(n) == <<<<CondBr(T, "foo", 2, 3)>>, <<Add(I32, one, one), Br("foo", 3)>>,
                     phis(n, InstV("foo", 2, 1), 1, 2) \o <<RetVoid>>>>
      exits == <<<<Br("foo", 2)>>, <<CondBr(T, "foo", 3, 4)>>, <<CondBr(T, "foo", 2, 5)>>, <<RetVoid>>, <<RetVoid>>>>
  IN {Module(<<CFGFunc("foo", TRUE, <<>>, blocks)>>) :
        blocks \in {self(1), self(2), two(1), two(2), three, nested, select(1), select(2), exits}}

\* Modules of two kernels foo and bar without arguments, each with or
\* without reqd_work_group_size metadata (a function record then has the
\* field reqd_work_group_size), the module with or without the variable
\* __spirv_WorkgroupSize, whose initializer runOnModule has removed.
WorkgroupSizeModules ==
  LET Kernel(name, md) ==
        IF md = <<>> THEN Func(name, TRUE, <<>>, <<>>)
        ELSE [name |-> name, kernel |-> TRUE, ret |-> VoidTy, args |-> <<>>, blocks |-> <<<<RetVoid>>>>, reqd_work_group_size |-> md]
      Sizes == {<<>>, <<1, 1, 1>>, <<2, 1, 1>>}
      Builtin == [v |-> [vk |-> "gv", name |-> "__spirv_WorkgroupSize"], ty |-> PtrTy(VecTy(I32, 3), "ModuleScopePrivate"), init |-> [vk |-> "none"]]
  IN {[funcs |-> <<Kernel("foo", a), Kernel("bar", b)>>, globals |-> g] : a \in Sizes, b \in Sizes, g \in {<<>>, <<Builtin>>}}

\* Kernels that read images through a sampler.
ImgArg(name) == PtrTy(OpaqueTy(name), "Global")
SamplerArg == PtrTy(OpaqueTy("opencl.sampler_t"), "Constant")
ReadImage(f, name, img, smp) ==
  IF name = "opencl.image2d_ro_t"
  THEN Call("_Z11read_imagef14ocl_image2d_ro11ocl_samplerDv2_f", VecTy(FloatTy, 4), <<ArgV(f, img), ArgV(f, smp), Undef(VecTy(FloatTy, 2))>>)
  ELSE Call("_Z11read_imagef14ocl_image3d_ro11ocl_samplerDv4_f", VecTy(FloatTy, 4), <<ArgV(f, img), ArgV(f, smp), Undef(VecTy(FloatTy, 4))>>)
ImageKernel(names) ==
  Func("foo", TRUE, [i \in 1..Len(names) + 1 |-> IF i <= Len(names) THEN ImgArg(names[i]) ELSE SamplerArg],
       [i \in 1..Len(names) |-> ReadImage("foo", names[i], i, Len(names) + 1)])
ImageModules ==
  {Module(<<ImageKernel(names)>>) : names \in {<<"opencl.image2d_ro_t">>, <<"opencl.image3d_ro_t">>,
      <<"opencl.image2d_ro_t", "opencl.image3d_ro_t">>, <<"opencl.image3d_ro_t", "opencl.image2d_ro_t">>}}

\* Kernels that call a builtin lowered to an extended instruction, that
\* allocate a private array, and modules with a second, non-kernel function.
CallModules ==
  LET Builtins == {[name |-> "_Z3clzi", ty |-> I32, n |-> 1], [name |-> "_Z3clzj", ty |-> I32, n |-> 1],
                   [name |-> "_Z3absi", ty |-> I32, n |-> 1], [name |-> "_Z6acospif", ty |-> FloatTy, n |-> 1],
                   [name |-> "_Z6asinpif", ty |-> FloatTy, n |-> 1], [name |-> "_Z7atan2piff", ty |-> FloatTy, n |-> 2]}
      Cst(ty) == IF ty = I32 THEN CInt(I32, 1) ELSE CFP(FloatTy, "0.0")
      \* a call on constants, and a call of g on the value of a call of f
      Once(f) == <<Call(f.name, f.ty, [k \in 1..f.n |-> Cst(f.ty)])>>
      Twice(f, g) == Once(f) \o <<Call(g.name, g.ty, [k \in 1..g.n |-> InstV("foo", 1, 1)])>>
  IN {Module(<<Func("foo", TRUE, [i \in 1..Len(kinds) |-> kinds[i].ty],
                    BodyOf(kinds, "foo", 1, <<>>) \o <<Call(name, I32, <<CInt(I32, 1)>>)>>)>>) :
        name \in {"_Z3clzj", "_Z3absi"}, kinds \in {<<>>, <<[ty |-> PtrTy(I32, "Local"), use |-> "load"]>>}}
     \cup {Module(<<Func("foo", TRUE, <<>>, Once(f))>>) : f \in Builtins}
     \cup {Module(<<Func("foo", TRUE, <<>>, Twice(fg[1], fg[2]))>>) : fg \in {x \in Builtins \X Builtins : x[1].ty = x[2].ty}}
\* Kernels with one alloca of an array, with two allocas of arrays of one
\* length, of different or equal types, and with an alloca and an addition
\* of the constant that is the length, and kernels with a getelementptr on each kind
\* of base (a global pointer argument, a local pointer argument, an
\* alloca, another getelementptr) with each kind of first index (the
\* constants 0 and 1 and the value of an instruction).
AllocaModules ==
  LET Arr == ArrayTy(I32, 2)
      n == InstV("foo", 1, 2)
      Start == <<Alloca(PtrTy(Arr, "Private")), Add(I32, CInt(I32, 1), CInt(I32, 1))>>
      Firsts == {CInt(I32, 0), CInt(I32, 1), n}
      Geps(first) ==
        {<<GEP(PtrTy(I32, "Global"), ArgV("foo", 1), first)>>,
         <<GEP(PtrTy(I32, "Local"), ArgV("foo", 2), first)>>,
         <<Inst("getelementptr", PtrTy(I32, "Private"), <<InstV("foo", 1, 1), first, CInt(I32, 1)>>, "")>>,
         <<GEP(PtrTy(I32, "Global"), ArgV("foo", 1), n), GEP(PtrTy(I32, "Global"), InstV("foo", 1, 3), first)>>}
      Arrays == {<<Alloca(PtrTy(Arr, "Private"))>>,
                 <<Alloca(PtrTy(Arr, "Private")), Alloca(PtrTy(Arr, "Private"))>>,
                 <<Alloca(PtrTy(Arr, "Private")), Alloca(PtrTy(ArrayTy(FloatTy, 2), "Private"))>>,
                 <<Alloca(PtrTy(Arr, "Private")), Add(I32, CInt(I32, 2), CInt(I32, 2))>>,
                 <<Add(I32, CInt(I32, 2), CInt(I32, 2)), Alloca(PtrTy(ArrayTy(FloatTy, 2), "Private"))>>}
  IN {Module(<<Func("foo", TRUE, <<>>, body)>>) : body \in Arrays}
     \cup UNION {{Module(<<Func("foo", TRUE, <<PtrTy(I32, "Global"), PtrTy(I32, "Local")>>, Start \o g)>>) : g \in Geps(first)} :
                   first \in Firsts}
HelperModules ==
  {Module(<<KernelOf(kinds), Func("bar", FALSE, params, <<>>)>>) :
     kinds \in {<<>>, <<[ty |-> PtrTy(I32, "Constant"), use |-> "none"]>>, <<[ty |-> PtrTy(I32, "Global"), use |-> "load"]>>},
     params \in {<<PtrTy(I32, "Global")>>, <<PtrTy(I32, "Constant")>>,
                 <<PtrTy(I32, "Global"), PtrTy(I32, "Constant")>>, <<PtrTy(I32, "Constant"), PtrTy(I32, "Global")>>}}

\* Modules of two or three kernels whose bodies only return, a kernel
\* having up to two arguments: pointers to global int or float, or to local
\* int.
KernelArgModules ==
  LET Tys == {PtrTy(I32, "Global"), PtrTy(FloatTy, "Global"), PtrTy(I32, "Local")}
      Lists == UNION {[1..n -> Tys] : n \in 0..2}
      Buffers == {<<PtrTy(I32, "Global")>>, <<PtrTy(FloatTy, "Global")>>}
  IN {Module(<<Func("foo", TRUE, a, <<>>), Func("bar", TRUE, b, <<>>)>>) : a \in Lists, b \in Lists}
     \cup {Module(<<Func("foo", TRUE, a, <<>>), Func("bar", TRUE, b, <<>>), Func("baz", TRUE, c, <<>>)>>) :
             a \in Buffers, b \in Buffers, c \in Buffers}
     \cup {Module(<<Func("foo", TRUE, <<PtrTy(I32, a)>>, <<>>), Func("bar", TRUE, <<PtrTy(I32, b)>>, <<>>)>>) :
             a \in {"Constant", "Global"}, b \in {"Constant", "Global"}}

\* Modules of a kernel foo that calls the function bar of the module, which
\* stands after or before it: twice in a row in a single block, or before a
\* loop and after it.
FunctionCallModules ==
  LET bar(params) == Func("bar", FALSE, params, <<>>)
      call(params) == Call("bar", VoidTy, [i \in 1..Len(params) |-> CInt(I32, 1)])
      straight(params) == Func("foo", TRUE, <<>>, <<call(params), call(params)>>)
      loop(params) ==
        CFGFunc("foo", TRUE, <<>>,
                <<<<call(params), Br("foo", 2)>>,
                  <<Phi(I32, <<CInt(I32, 0), InstV("foo", 2, 2)>>, "foo", <<1, 2>>),
                    Add(I32, InstV("foo", 2, 1), CInt(I32, 1)), CondBr(CInt(I1, 1), "foo", 2, 3)>>,
                  <<call(params), RetVoid>>>>)
  IN UNION {{Module(<<straight(p), bar(p)>>), Module(<<bar(p), straight(p)>>),
             Module(<<loop(p), bar(p)>>), Module(<<bar(p), loop(p)>>)} : p \in {<<>>, <<I32>>}}

\* Kernels with an xor of i1 on a loaded value and a constant, in either
\* operand position, or on two loaded values or two constants; with an
\* extractelement or an insertelement on a constant <4 x i8> or <2 x float>
\* whose index is a constant or the value of an instruction.
VectorModules ==
  LET x == InstV("foo", 1, 2)
      Bools == {CInt(I1, 0), CInt(I1, 1), x}
      Loaded == <<Alloca(PtrTy(I1, "Private")), Load(I1, InstV("foo", 1, 1))>>
      n == InstV("foo", 1, 1)
      Sum == <<Add(I32, CInt(I32, 1), CInt(I32, 1))>>
      Bytes == {CInt(I8, b) : b \in (0..MaxByte) \cup {TopByte}}
      V2 == VecTy(FloatTy, 2)
      Zero == CFP(FloatTy, "0.0")
  IN {Module(<<Func("foo", TRUE, <<>>, Loaded \o <<Inst("xor", I1, <<a, b>>, "")>>)>>) : a \in Bools, b \in Bools}
     \cup {Module(<<Func("foo", TRUE, <<>>, Sum \o <<Inst("extractelement", I8, <<Vec4(cops), CInt(I32, i)>>, "")>>)>>) :
             cops \in [1..4 -> Bytes], i \in 0..3}
     \cup {Module(<<Func("foo", TRUE, <<>>, Sum \o <<I>>)>>) :
             I \in UNION {{Inst("extractelement", I8, <<Vec4([k \in 1..4 |-> CInt(I8, 1)]), i>>, ""),
                            Inst("extractelement", FloatTy, <<Undef(V2), i>>, ""),
                            Inst("insertelement", V4I8, <<Vec4([k \in 1..4 |-> CInt(I8, 1)]), CInt(I8, 1), i>>, ""),
                            Inst("insertelement", V2, <<Undef(V2), Zero, i>>, "")} : i \in {CInt(I32, 1), n}}}

Modules ==
  VectorModules \cup ArgListModules \cup Vec4Modules \cup Vec4PairModules \cup CFGModules \cup WorkgroupSizeModules \cup KernelArgModules
  \cup FunctionCallModules \cup ImageModules \cup CallModules \cup AllocaModules \cup HelperModules

\* Accessors of a module.  getMetadata is the reqd_work_group_size node of
\* a function, <<>> when it has none; GetBuiltin the builtin a global
\* variable is named after.
getMetadata(F) == IF "reqd_work_group_size" \in DOMAIN F THEN F.reqd_work_group_size ELSE <<>>
GetBuiltin(v) == IF v.vk = "gv" /\ v.name = "__spirv_WorkgroupSize" THEN "WorkgroupSize" ELSE "Max"
FuncNamed(M, name) == CHOOSE i \in 1..Len(M.funcs) : M.funcs[i].name = name
GlobalOf(M, gv) == M.globals[CHOOSE i \in 1..Len(M.globals) : M.globals[i].v = gv]
InstAt(M, v) == M.funcs[FuncNamed(M, v.f)].blocks[v.b][v.i]
TypeOf(M, v) ==
  CASE v.vk = "arg" -> M.funcs[FuncNamed(M, v.f)].args[v.i]
    [] v.vk = "inst" -> InstAt(M, v).ty
    [] v.vk \in {"arggv", "gv"} -> GlobalOf(M, v).ty
    [] v.vk = "bb" -> LabelTy
    [] OTHER -> v.ty
\* Value::users() of a value inside function f, as instruction values.
Users(M, f, v) ==
  LET F == M.funcs[FuncNamed(M, f)]
  IN UNION {{InstV(f, b, i) : i \in {j \in 1..Len(F.blocks[b]) : Contains(F.blocks[b][j].ops, v)}} : b \in 1..Len(F.blocks)}

\* The control flow graph of a function, its dominator tree and its loops
\* (DominatorTreeWrapperPass and LoopInfoWrapperPass).  A block is its
\* index in the function.
Successors(F, b) ==
  LET I == F.blocks[b][Len(F.blocks[b])]
  IN {I.ops[k].b : k \in {j \in 1..Len(I.ops) : I.ops[j].vk = "bb"}}
\* The blocks reached from the blocks S on paths that do not enter avoid.
RECURSIVE ReachableFrom(_, _, _)
ReachableFrom(F, S, avoid) ==
  LET N == S \cup (UNION {Successors(F, b) : b \in S} \ {avoid})
  IN IF N = S THEN S ELSE ReachableFrom(F, N, avoid)
dominates(F, A, B) == A = B \/ B \notin ReachableFrom(F, {1} \ {A}, A)
\* The natural loop of header h: its latches, its blocks and its exit
\* blocks; h is a loop header when it has a latch.
LoopFor(F, h) ==
  LET latches == {t \in 1..Len(F.blocks) : h \in Successors(F, t) /\ dominates(F, h, t)}
      blocks == {h} \cup {b \in 1..Len(F.blocks) : b # h /\ ReachableFrom(F, {b}, h) \cap latches # {}}
  IN [latches |-> latches, blocks |-> blocks, exits |-> UNION {Successors(F, b) : b \in blocks} \ blocks]
\* No block taken for a loop header.
isLoopHeaderNever(F, h) == FALSE

isLoopHeader(F, h) == LoopFor(F, h).latches # {}
\* The entry block of the function for exit block.
getExitBlockFirst(F, h) == 1

\* Loop::getExitBlock: the exit block when there is one only, null (0) otherwise.
getExitBlock(F, h) == LET E == LoopFor(F, h).exits IN IF Cardinality(E) = 1 THEN CHOOSE e \in E : TRUE ELSE 0

\* ------------------------------------------------------------------------
\* The pass object.  The fields of SPIRVProducerPass are the variables; the
\* operators below work on a record of them (St), and an action commits
\* the record a phase returns.  The options of the pass are at their
\* defaults: binary output, no sampler map, pod arguments in storage
\* buffers, one descriptor set, no undef or initializer hack.  The
\* variable unreachable tells that the run has executed llvm_unreachable,
\* descriptorMapOut is the descriptor map written so far, line by line,
\* stack the frames of the calls of FindType that have not returned, when
\* FindType is followed call by call (FindTypeSpec).
\* ------------------------------------------------------------------------

VARIABLES pc, fn, module, out, patchBoundOffset, nextID, nodes,
          Types, Constants, TypeMap, ImageTypeMap, ValueMap, AllocatedValueMap,
          SPIRVInsts, ArgumentGVMap, ArgumentGVIDMap,
          EntryPointVec, DeferredInstVec, EntryPointInterfacesVec,
          OpExtInstImportID, BuiltinDimensionVec, HasVariablePointers,
          TypesNeedingArrayStride, GVarWithEmittedBindingInfo,
          LocalArgs, LocalArgMap, NextDescriptorSetIndex, ArgSpecIdMap,
          constant_i32_zero_id_, descriptorMapOut, unreachable, stack

vars == <<pc, fn, module, out, patchBoundOffset, nextID, nodes,
          Types, Constants, TypeMap, ImageTypeMap, ValueMap, AllocatedValueMap,
          SPIRVInsts, ArgumentGVMap, ArgumentGVIDMap,
          EntryPointVec, DeferredInstVec, EntryPointInterfacesVec,
          OpExtInstImportID, BuiltinDimensionVec, HasVariablePointers,
          TypesNeedingArrayStride, GVarWithEmittedBindingInfo,
          LocalArgs, LocalArgMap, NextDescriptorSetIndex, ArgSpecIdMap,
          constant_i32_zero_id_, descriptorMapOut, unreachable, stack>>

St ==
  [module |-> module, out |-> out, patchBoundOffset |-> patchBoundOffset,
   nextID |-> nextID, nodes |-> nodes, Types |-> Types, Constants |-> Constants,
   TypeMap |-> TypeMap, ImageTypeMap |-> ImageTypeMap, ValueMap |-> ValueMap,
   AllocatedValueMap |-> AllocatedValueMap,
   SPIRVInsts |-> SPIRVInsts, ArgumentGVMap |-> ArgumentGVMap,
   ArgumentGVIDMap |-> ArgumentGVIDMap, EntryPointVec |-> EntryPointVec,
   DeferredInstVec |-> DeferredInstVec,
   EntryPointInterfacesVec |-> EntryPointInterfacesVec,
   OpExtInstImportID |-> OpExtInstImportID,
   BuiltinDimensionVec |-> BuiltinDimensionVec,
   HasVariablePointers |-> HasVariablePointers,
   TypesNeedingArrayStride |-> TypesNeedingArrayStride,
   GVarWithEmittedBindingInfo |-> GVarWithEmittedBindingInfo,
   LocalArgs |-> LocalArgs, LocalArgMap |-> LocalArgMap,
   NextDescriptorSetIndex |-> NextDescriptorSetIndex,
   ArgSpecIdMap |-> ArgSpecIdMap,
   constant_i32_zero_id_ |-> constant_i32_zero_id_, descriptorMapOut |-> descriptorMapOut,
   unreachable |-> unreachable]

\* The pass after construction, about to translate module M.
Fresh(M) ==
  [module |-> M, out |-> [header |-> <<>>, insts |-> <<>>], patchBoundOffset |-> 0,
   nextID |-> 1, nodes |-> 0, Types |-> <<>>, Constants |-> <<>>,
   TypeMap |-> EmptyMap, ImageTypeMap |-> EmptyMap, ValueMap |-> EmptyMap,
   AllocatedValueMap |-> EmptyMap,
   SPIRVInsts |-> <<>>, ArgumentGVMap |-> EmptyMap,
   ArgumentGVIDMap |-> EmptyMap, EntryPointVec |-> <<>>,
   DeferredInstVec |-> <<>>, EntryPointInterfacesVec |-> <<>>,
   OpExtInstImportID |-> 0, BuiltinDimensionVec |-> <<>>,
   HasVariablePointers |-> FALSE, TypesNeedingArrayStride |-> <<>>,
   GVarWithEmittedBindingInfo |-> {}, LocalArgs |-> <<>>, LocalArgMap |-> EmptyMap,
   NextDescriptorSetIndex |-> 0, ArgSpecIdMap |-> EmptyMap,
   constant_i32_zero_id_ |-> 0, descriptorMapOut |-> <<>>, unreachable |-> FALSE]

\* The primed fields are those of record s.
Assign(s) ==
  /\ module' = s.module /\ out' = s.out /\ patchBoundOffset' = s.patchBoundOffset
  /\ nextID' = s.nextID /\ nodes' = s.nodes /\ Types' = s.Types
  /\ Constants' = s.Constants /\ TypeMap' = s.TypeMap
  /\ ImageTypeMap' = s.ImageTypeMap /\ ValueMap' = s.ValueMap
  /\ AllocatedValueMap' = s.AllocatedValueMap
  /\ SPIRVInsts' = s.SPIRVInsts /\ ArgumentGVMap' = s.ArgumentGVMap
  /\ ArgumentGVIDMap' = s.ArgumentGVIDMap /\ EntryPointVec' = s.EntryPointVec
  /\ DeferredInstVec' = s.DeferredInstVec
  /\ EntryPointInterfacesVec' = s.EntryPointInterfacesVec
  /\ OpExtInstImportID' = s.OpExtInstImportID
  /\ BuiltinDimensionVec' = s.BuiltinDimensionVec
  /\ HasVariablePointers' = s.HasVariablePointers
  /\ TypesNeedingArrayStride' = s.TypesNeedingArrayStride
  /\ GVarWithEmittedBindingInfo' = s.GVarWithEmittedBindingInfo
  /\ LocalArgs' = s.LocalArgs /\ LocalArgMap' = s.LocalArgMap
  /\ NextDescriptorSetIndex' = s.NextDescriptorSetIndex
  /\ ArgSpecIdMap' = s.ArgSpecIdMap
  /\ constant_i32_zero_id_' = s.constant_i32_zero_id_
  /\ descriptorMapOut' = s.descriptorMapOut
  /\ unreachable' = s.unreachable

\* A loop over a sequence, from element i on: s becomes F(s, seq[i]).  (The
\* test t = t has the turn's result computed before the next turn starts.)
RECURSIVE Fold(_, _, _, _)
Fold(F(_, _), s, seq, i) ==
  IF i > Len(seq) THEN s
  ELSE LET t == F(s, seq[i]) IN IF t = t THEN Fold(F, t, seq, i + 1) ELSE t

\* ------------------------------------------------------------------------
\* Discovery of types and constants.
\* ------------------------------------------------------------------------

RECURSIVE FindType(_, _)
FindType(s, Ty) ==
  IF IdFor(s.Types, Ty) # 0 THEN s
  ELSE IF IsPointerTy(Ty) /\ Ty.as \in {"Constant", "Global"} /\ IsOpaqueStruct(Ty.elem)
  THEN FindType(FindType(s, Ty.elem), PtrTy(Ty.elem, "UniformConstant"))
  ELSE LET s1 == IF Ty.k = "array" THEN FindType(s, I32) ELSE s
           s2 == Fold(FindType, s1, Subtypes(Ty), 1)
       IN [s2 EXCEPT !.Types = UVInsert(@, Ty)]

\* The operands of a constant (User::op_begin..op_end) and the elements of
\* a ConstantDataSequential as constants (getElementAsConstant).
ConstantOperands(Cst) ==
  CASE Cst.vk = "cvec" -> Cst.cops
    [] Cst.vk = "cds" -> [i \in 1..Cst.ty.n |-> CInt(Cst.ty.elem, Cst.elems[i])]
    [] OTHER -> <<>>

RECURSIVE FindConstant(_, _)
FindConstant(s, V) ==
  IF IdFor(s.Constants, V) # 0 THEN s
  ELSE LET s1 == IF is4xi8vec(V.ty) THEN [s EXCEPT !.Constants = UVInsert(@, V)] ELSE s
           s2 == Fold(FindConstant, s1, ConstantOperands(V), 1)
       IN [s2 EXCEPT !.Constants = UVInsert(@, V)]

\* The instructions of a function as values, block by block.
RECURSIVE InstValues(_, _)
InstValues(F, b) ==
  IF b > Len(F.blocks) THEN <<>>
  ELSE [i \in 1..Len(F.blocks[b]) |-> InstV(F.name, b, i)] \o InstValues(F, b + 1)

\* The family has no shufflevector, no sampler initializer and no
\* getelementptr into module-scope private memory.
FindTypePerFunc(s, F) ==
  LET s0 == FindType(s, IF F.kernel THEN FuncTy(F.ret, <<>>) ELSE FuncTy(F.ret, F.args))
      PerInst(t, iv) ==
        LET I == InstAt(t.module, iv)
            t1 == Fold(LAMBDA u, Op : IF IsConstant(Op) THEN FindType(u, Op.ty) ELSE u, t, I.ops, 1)
            t2 == IF I.op = "call" THEN t1
                  ELSE Fold(LAMBDA u, Op : FindType(u, TypeOf(u.module, Op)), t1, I.ops, 1)
        IN FindType(t2, I.ty)
  IN Fold(PerInst, s0, InstValues(F, 1), 1)

\* The family has no shufflevector, trunc or atomicrmw instruction.
FindConstantPerFunc(s, F) ==
  LET PerInst(t, iv) ==
        LET I == InstAt(t.module, iv)
            Find(u, Op) == IF IsConstant(Op) THEN FindConstant(u, Op) ELSE u
            \* the operands but the one at position skip (0 for none)
            Others(skip) == Fold(LAMBDA u, k : IF k = skip THEN u ELSE Find(u, I.ops[k]), t, [k \in 1..Len(I.ops) |-> k], 1)
            CstFF(u) == FindConstant(u, CInt(I32, 255))
            Amount(u, Index) == IF Index.vk = "cint" THEN FindConstant(u, CInt(I32, Index.v * 8)) ELSE u
            \* xor of i1: the first constant true is left out
            Xor(x, Op) ==
              IF ~IsConstant(Op) THEN x
              ELSE IF Op.v = 0 \/ x.foundConstantTrue THEN [x EXCEPT !.u = FindConstant(@, Op)]
              ELSE [x EXCEPT !.foundConstantTrue = TRUE]
        IN CASE I.op = "alloca" -> t
             [] I.op = "insertelement" /\ is4xi8vec(TypeOf(t.module, I.ops[1])) ->
                  Amount(CstFF(Find(Find(t, I.ops[1]), I.ops[2])), I.ops[3])
             [] I.op = "insertelement" /\ ~is4xi8vec(TypeOf(t.module, I.ops[1])) -> Others(3)
             [] I.op = "extractelement" /\ is4xi8vec(TypeOf(t.module, I.ops[1])) ->
                  IF I.ops[2].vk = "cint" THEN Amount(CstFF(Find(t, I.ops[1])), I.ops[2])
                  ELSE FindConstant(CstFF(Find(t, I.ops[1])), CInt(I32, 8))
             [] I.op = "extractelement" /\ ~is4xi8vec(TypeOf(t.module, I.ops[1])) -> Others(2)
             [] I.op = "xor" /\ I.ty = I1 -> Fold(Xor, [u |-> t, foundConstantTrue |-> FALSE], I.ops, 1).u
             [] OTHER -> Others(0)
  IN Fold(PerInst, s, InstValues(F, 1), 1)

ReadImageNames == {"_Z11read_imagef14ocl_image2d_ro11ocl_samplerDv2_f", "_Z11read_imagef14ocl_image3d_ro11ocl_samplerDv4_f"}

\* Module::getTypeByName of one of the four image struct names.
HasImageTypes(M) ==
  \E f \in 1..Len(M.funcs) : \E a \in 1..Len(M.funcs[f].args) :
     LET ty == M.funcs[f].args[a] IN IsPointerTy(ty) /\ IsOpaqueStruct(ty.elem) /\ ty.elem.name \in ImageTypeNames

\* The scan of a function's instructions in GenerateLLVMIRInfo: a call of
\* read_imagef records the image type and the constant 0.0f.  (The family
\* has no zext, sext or uitofp of an i1 and no builtin that needs ivec2.)
ScanCalls(s, F) ==
  LET PerInst(t, iv) ==
        LET I == InstAt(t.module, iv)
        IN IF I.op = "call" /\ I.callee \in ReadImageNames
           THEN FindConstant([t EXCEPT !.ImageTypeMap = Put(@, TypeOf(t.module, I.ops[1]).elem, 0)], CFP(FloatTy, "0.0"))
           ELSE t
      s1 == Fold(PerInst, s, InstValues(F, 1), 1)
  IN IF HasImageTypes(s.module) THEN FindType(s1, FloatTy) ELSE s1

\* A block whose last id is the pointer type's.
LocalArgInfoFour(id, elem_type, spec_id) ==
  [variable_id |-> id, elem_type |-> elem_type, array_size_id |-> id + 1, array_type_id |-> id + 2,
   ptr_array_type_id |-> id + 3, first_elem_ptr_id |-> id + 3, spec_id |-> spec_id]

\* The ids of a pointer-to-local argument, a block that starts at nextID,
\* and nextID after the block.
LocalArgInfo(id, elem_type, spec_id) ==
  [variable_id |-> id, elem_type |-> elem_type, array_size_id |-> id + 1, array_type_id |-> id + 2,
   ptr_array_type_id |-> id + 3, first_elem_ptr_id |-> id + 4, spec_id |-> spec_id]

\* A block one id short.
AfterLocalArgInfoShort(id) == id + 4

\* nextID += 5
AfterLocalArgInfo(id) == id + 5

\* The tuples (kernel ordinal, binding, variable ordinal) of a set that
\* belong to any other kernel than ord, whatever their binding.
ReusableAnyBinding(set, ord, Idx) == {t \in set : t[1] # ord}

\* The tuples of a set whose variable the kernel of ordinal ord may reuse
\* for its argument of binding Idx.
Reusable(set, ord, Idx) == {t \in set : t[1] # ord /\ t[2] = Idx}

\* One turn of the loop over a kernel's arguments.  x carries the pass (x.s)
\* and the locals of GenerateLLVMIRInfo: ArgTyMap, GVarsForType,
\* KernelArgVarOrdinal, the kernel (F) and its ordinal (ord), Idx and
\* HasArgUser.  a is the position of the argument.
ArgInfo(x, a) ==
  LET F == x.F
      Arg == ArgV(F.name, a)
      ArgTy == F.args[a]
      IsSamplerType == IsPointerTy(ArgTy) /\ IsOpaqueStruct(ArgTy.elem) /\ ArgTy.elem.name = "opencl.sampler_t"
      IsImageType == IsPointerTy(ArgTy) /\ IsOpaqueStruct(ArgTy.elem) /\ ArgTy.elem.name \in ImageTypeNames
      IsPointerToLocal == IsLocalPtr(ArgTy)
      AddrSpace == IF IsSamplerType \/ IsImageType THEN "UniformConstant"
                   ELSE IF IsPointerTy(ArgTy) THEN ArgTy.as ELSE "Global"
      TmpArgTy == IF IsSamplerType \/ IsImageType THEN ArgTy.elem
                  ELSE IF IsPointerTy(ArgTy) /\ ArgTy.as = "Constant" THEN PtrTy(ArgTy.elem, "Global")
                  ELSE ArgTy
      Wraps == ~(IsSamplerType \/ IsImageType) /\ ~IsPointerToLocal /\ Count(x.ArgTyMap, TmpArgTy) = 0
      GVTy == IF IsSamplerType \/ IsImageType THEN TmpArgTy
              ELSE IF Count(x.ArgTyMap, TmpArgTy) # 0 THEN x.ArgTyMap[TmpArgTy]
              ELSE StructTy(<<ArgTy>>)
      \* pointer-to-local: the block of five ids
      s1 == IF IsPointerToLocal
            THEN [x.s EXCEPT !.LocalArgMap = Put(@, Arg, LocalArgInfo(x.s.nextID, ArgTy.elem, Get(x.s.ArgSpecIdMap, Arg))),
                             !.LocalArgs = Append(@, Arg),
                             !.nextID = AfterLocalArgInfo(@)]
            ELSE x.s
      \* the module-scope variable of any other argument
      set == IF Count(x.GVarsForType, GVTy) # 0 THEN x.GVarsForType[GVTy] ELSE {}
      reusable == IF IsSamplerType \/ IsImageType THEN {} ELSE Reusable(set, x.ord, x.Idx)
      first == CHOOSE t \in reusable : \A u \in reusable : t[1] < u[1] \/ (t[1] = u[1] /\ t[3] <= u[3])
      Reuses == reusable # {}
      GV == IF Reuses THEN x.KernelArgVarOrdinal[first[3]] ELSE ArgGV(F.name, x.Idx)
      ordinals == UVInsert(x.KernelArgVarOrdinal, GV)
      M1 == IF Reuses THEN s1.module
            ELSE [s1.module EXCEPT !.globals = Append(@, [v |-> GV, ty |-> PtrTy(GVTy, AddrSpace), init |-> Undef(GVTy)])]
      s2 == IF IsPointerToLocal THEN s1
            ELSE [FindType([s1 EXCEPT !.module = M1], TypeOf(M1, GV)) EXCEPT !.ArgumentGVMap = Put(@, Arg, GV)]
      used == Users(x.s.module, F.name, Arg) # {}
      s3 == IF used /\ ~IsPointerTy(ArgTy) THEN FindType(s2, PtrTy(ArgTy, AddrSpace)) ELSE s2
  IN [x EXCEPT !.s = s3,
               !.ArgTyMap = IF Wraps THEN Put(@, TmpArgTy, GVTy) ELSE @,
               !.GVarsForType = IF IsPointerToLocal THEN @
                                ELSE Put(@, GVTy, (set \ (IF Reuses THEN {first} ELSE {})) \cup {<<x.ord, x.Idx, IdFor(ordinals, GV)>>}),
               !.KernelArgVarOrdinal = IF IsPointerToLocal THEN @ ELSE ordinals,
               !.Idx = IF IsPointerToLocal THEN @ ELSE @ + 1,
               !.HasArgUser = @ \/ used]

\* The body of the loop over the kernels.
KernelInfo(x, F) ==
  IF ~F.kernel THEN x
  ELSE LET MD == getMetadata(F)
           HasWorkGroupBuiltin == \E g \in 1..Len(x.s.module.globals) : GetBuiltin(x.s.module.globals[g].v) = "WorkgroupSize"
           s0 == IF MD # <<>> /\ HasWorkGroupBuiltin
                 THEN Fold(LAMBDA t, d : FindConstant(t, CInt(I32, d)), ScanCalls(x.s, F), MD, 1)
                 ELSE ScanCalls(x.s, F)
           x1 == [x EXCEPT !.s = s0, !.F = F, !.ord = @ + 1, !.Idx = 0, !.HasArgUser = FALSE]
           \* after the loop over the arguments, which leaves x2
           Rest(x2) ==
             LET s3 == IF x2.HasArgUser THEN FindType(FindConstant(x2.s, CInt(I32, 0)), I32) ELSE x2.s
             IN [x2 EXCEPT !.s = FindConstantPerFunc(FindTypePerFunc(s3, F), F)]
       IN Rest(Fold(ArgInfo, x1, [a \in 1..Len(F.args) |-> a], 1))

\* The family has no module-scope constant.
GenerateLLVMIRInfo(s) ==
  LET x0 == [s |-> s, ArgTyMap |-> EmptyMap, GVarsForType |-> EmptyMap, KernelArgVarOrdinal |-> <<>>,
             F |-> s.module.funcs[1], ord |-> 0, Idx |-> 0, HasArgUser |-> FALSE]
      Other(t, F) == IF F.kernel THEN t ELSE FindConstantPerFunc(FindTypePerFunc(ScanCalls(t, F), F), F)
  IN Fold(Other, Fold(KernelInfo, x0, s.module.funcs, 1).s, s.module.funcs, 1)

\* ------------------------------------------------------------------------
\* SPIR-V instructions.  An operand is an id, a literal number, a literal
\* float, a literal string or (for the literal numbers that are SPIR-V
\* enumerants) the enumerant's name; an instruction is its list node n, its
\* opcode, its result id (0 when it has none) and its operands.
\* ------------------------------------------------------------------------

MkId(v) == [t |-> "id", v |-> v]
MkNum(v) == [t |-> "num", v |-> v]
MkEnum(e) == [t |-> "enum", s |-> e]
MkFloat(f) == [t |-> "float", s |-> f]
MkString(str) == [t |-> "str", s |-> str]

\* SPIRVInstList.push_back(new SPIRVInstruction(op, id, ops)).
PushBack(s, op, id, ops) ==
  [s EXCEPT !.SPIRVInsts = Append(@, [n |-> s.nodes + 1, op |-> op, id |-> id, ops |-> ops]),
            !.nodes = @ + 1]

\* A list iterator is the node it points at, or EndIt for end().
EndIt == 0
PosOf(list, it) == IF it = EndIt THEN Len(list) + 1 ELSE CHOOSE i \in 1..Len(list) : list[i].n = it

\* SPIRVInstList.insert(it, new SPIRVInstruction(op, id, ops)).
Insert(s, it, op, id, ops) ==
  LET p == PosOf(s.SPIRVInsts, it)
  IN [s EXCEPT !.SPIRVInsts = SubSeq(@, 1, p - 1) \o <<[n |-> s.nodes + 1, op |-> op, id |-> id, ops |-> ops]>> \o SubSeq(@, p, Len(@)),
               !.nodes = @ + 1]

\* std::find_if for the first instruction that is no decoration and no
\* import of an extended instruction set.
DecoInsertPoint(list) ==
  LET Other == {i \in 1..Len(list) : list[i].op \notin {"OpDecorate", "OpMemberDecorate", "OpExtInstImport"}}
  IN IF Other = {} THEN EndIt ELSE list[CHOOSE i \in Other : \A j \in Other : i <= j].n

\* The id lookupType returns when the type is not in TypeMap, where the
\* source reaches llvm_unreachable.
Unhandled == -1

lookupType(s, Type) ==
  LET Ty == IF IsPointerTy(Type) /\ Type.as # "UniformConstant" /\ IsOpaqueStruct(Type.elem) THEN Type.elem ELSE Type
  IN IF Count(s.TypeMap, Ty) = 0 THEN Unhandled ELSE s.TypeMap[Ty]

GetStorageClass(AddrSpace) ==
  CASE AddrSpace = "Private" -> "Function"
    [] AddrSpace \in {"Global", "Constant"} -> "StorageBuffer"
    [] AddrSpace = "Input" -> "Input"
    [] AddrSpace = "Local" -> "Workgroup"
    [] AddrSpace = "UniformConstant" -> "UniformConstant"
    [] AddrSpace = "Uniform" -> "Uniform"
    [] AddrSpace = "ModuleScopePrivate" -> "Private"

\* ------------------------------------------------------------------------
\* GenerateSPIRVTypes.  x carries the pass (x.s) and the local map
\* OpRuntimeTyMap.
\* ------------------------------------------------------------------------

\* The kernel arguments (keys of ArgGVMap) of type PTy.
ArgsOfType(s, PTy) == {Arg \in DOMAIN s.ArgumentGVMap : TypeOf(s.module, Arg) = PTy}

\* A pass that never looks for the mirror type.
HasMirrorTypeNever(s, PTy) == FALSE

\* The type of the pointer to the same pointee in the mirror address space
\* (constant for global, global for constant) is in TypeMap already.
HasMirrorType(s, PTy) ==
  /\ PTy.as \in {"Constant", "Global"}
  /\ Count(s.TypeMap, PtrTy(PTy.elem, IF PTy.as = "Constant" THEN "Global" ELSE "Constant")) > 0

PointerType(x, PTy) ==
  LET s == x.s
      Twin == PtrTy(PTy.elem, IF PTy.as = "Constant" THEN "Global" ELSE "Constant")
      AddrSpace == IF PTy.as \in {"Constant", "Global"} THEN Twin.as ELSE PTy.as
      UseExistingOpTypePointer == HasMirrorType(s, PTy)
      s0 == IF UseExistingOpTypePointer THEN [s EXCEPT !.TypeMap = Put(@, PTy, s.TypeMap[Twin])] ELSE s
      Args == ArgsOfType(s, PTy)
      IsOpTypeRuntimeArray == Args # {} /\ AddrSpace # "UniformConstant"
      HasArgUser == \E Arg \in Args : \E U \in Users(s.module, Arg.f, Arg) :
                       InstAt(s.module, U).op # "getelementptr" \/ InstAt(s.module, U).ty = PTy
      s1 == IF (~IsOpTypeRuntimeArray \/ HasArgUser) /\ ~UseExistingOpTypePointer
            THEN [PushBack(s0, "OpTypePointer", s0.nextID, <<MkEnum(GetStorageClass(AddrSpace)), MkId(lookupType(s0, PTy.elem))>>)
                    EXCEPT !.nextID = @ + 1]
            ELSE s0
      s2 == [PushBack(s1, "OpTypeRuntimeArray", s1.nextID, <<MkId(lookupType(s1, PTy.elem))>>) EXCEPT !.nextID = @ + 1]
      s3 == Insert(s2, DecoInsertPoint(s2.SPIRVInsts), "OpDecorate", 0,
                   <<MkId(s1.nextID), MkEnum("ArrayStride"), MkNum(TypeAllocSize(PTy.elem))>>)
  IN IF PTy.as = "Constant" /\ UseExistingOpTypePointer THEN [x EXCEPT !.s = s0]
     ELSE IF IsOpTypeRuntimeArray THEN [x EXCEPT !.s = s3, !.OpRuntimeTyMap = Put(@, PTy, s1.nextID)]
     ELSE [x EXCEPT !.s = s1]

\* The byte offset of member i (from 1) of a struct, members packed.
ElementOffset(STy, i) == TypeAllocSize([STy EXCEPT !.elems = SubSeq(@, 1, i - 1)])

StructType(x, STy) ==
  LET s == x.s
      EleTyID(EleTy) == IF IsPointerTy(EleTy) /\ ArgsOfType(s, EleTy) # {} THEN Get(x.OpRuntimeTyMap, EleTy)
                        ELSE lookupType(s, EleTy)
      STyID == s.nextID
      s1 == [PushBack(s, "OpTypeStruct", STyID, [i \in 1..Len(STy.elems) |-> MkId(EleTyID(STy.elems[i]))]) EXCEPT !.nextID = @ + 1]
      point == DecoInsertPoint(s1.SPIRVInsts)
      s2 == Fold(LAMBDA t, i : Insert(t, point, "OpMemberDecorate", 0,
                                      <<MkId(STyID), MkNum(i - 1), MkEnum("Offset"), MkNum(ElementOffset(STy, i))>>),
                 s1, [i \in 1..Len(STy.elems) |-> i], 1)
      IsArgStruct == \E Arg \in DOMAIN s.ArgumentGVMap : TypeOf(s.module, s.ArgumentGVMap[Arg]).elem = STy
      s3 == IF IsArgStruct THEN Insert(s2, point, "OpDecorate", 0, <<MkId(STyID), MkEnum("Block")>>) ELSE s2
  IN IF STy.opaque /\ STy.name = "opencl.sampler_t"
     THEN [x EXCEPT !.s = [PushBack(s, "OpTypeSampler", s.nextID, <<>>) EXCEPT !.nextID = @ + 1]]
     ELSE IF STy.opaque /\ STy.name \in ImageTypeNames
     THEN [x EXCEPT !.s = [PushBack(s, "OpTypeImage", s.nextID,
                              <<MkId(lookupType(s, FloatTy)),
                                MkEnum(IF STy.name \in {"opencl.image3d_ro_t", "opencl.image3d_wo_t"} THEN "Dim3D" ELSE "Dim2D"),
                                MkNum(0), MkNum(0), MkNum(0),
                                MkNum(IF STy.name \in {"opencl.image2d_wo_t", "opencl.image3d_wo_t"} THEN 2 ELSE 1),
                                MkEnum("ImageFormatUnknown")>>) EXCEPT !.nextID = @ + 1]]
     ELSE [x EXCEPT !.s = s3]

\* An emission of the integer types without the alias of i8 and i32.
IntegerTypeNoAlias(s, Ty) ==
  IF Ty.w = 1 THEN [PushBack(s, "OpTypeBool", s.nextID, <<>>) EXCEPT !.nextID = @ + 1]
  ELSE [PushBack(s, "OpTypeInt", s.nextID, <<MkNum(IF Ty.w = 8 THEN 32 ELSE Ty.w), MkNum(0)>>) EXCEPT !.nextID = @ + 1]

IntegerType(s, Ty) ==
  LET aliasToWidth == IF Ty.w = 8 THEN 32 ELSE IF Ty.w = 32 THEN 8 ELSE 0
      BitWidth == IF Ty.w = 8 THEN 32 ELSE Ty.w
      otherType == IntTy(aliasToWidth)
  IN IF Ty.w = 1 THEN [PushBack(s, "OpTypeBool", s.nextID, <<>>) EXCEPT !.nextID = @ + 1]
     ELSE IF aliasToWidth # 0 /\ Count(s.TypeMap, otherType) # 0
     THEN [s EXCEPT !.TypeMap = Put(@, Ty, s.TypeMap[otherType])]
     ELSE LET s1 == IF aliasToWidth # 0 THEN [s EXCEPT !.TypeMap = Put(@, otherType, s.nextID)] ELSE s
          IN [PushBack(s1, "OpTypeInt", s1.nextID, <<MkNum(BitWidth), MkNum(0)>>) EXCEPT !.nextID = @ + 1]

\* An emission of the array type before its length constant.
ArrayTypeLengthLast(s, ArrTy) ==
  LET CstLength == CInt(I32, ArrTy.n)
      LengthID == s.nextID
      s1 == [PushBack(s, "OpTypeArray", LengthID + 1, <<MkId(lookupType(s, ArrTy.elem)), MkId(LengthID)>>)
               EXCEPT !.AllocatedValueMap = Put(@, CstLength, LengthID),
                      !.ValueMap = Put(@, CstLength, LengthID),
                      !.TypeMap = Put(@, ArrTy, LengthID + 1),
                      !.TypesNeedingArrayStride = UVInsert(@, ArrTy)]
  IN [PushBack(s1, "OpConstant", LengthID, <<MkId(lookupType(s, I32)), MkNum(ArrTy.n)>>) EXCEPT !.nextID = @ + 2]

ArrayType(s, ArrTy) ==
  LET CstLength == CInt(I32, ArrTy.n)
      LengthID == s.nextID
      s1 == [PushBack(s, "OpConstant", LengthID, <<MkId(lookupType(s, I32)), MkNum(ArrTy.n)>>)
               EXCEPT !.AllocatedValueMap = Put(@, CstLength, LengthID),
                      !.ValueMap = Put(@, CstLength, LengthID),
                      !.nextID = @ + 1,
                      !.TypesNeedingArrayStride = UVInsert(@, ArrTy)]
      s2 == [s1 EXCEPT !.TypeMap = Put(@, ArrTy, s1.nextID)]
  IN [PushBack(s2, "OpTypeArray", s2.nextID, <<MkId(lookupType(s1, ArrTy.elem)), MkId(LengthID)>>) EXCEPT !.nextID = @ + 1]

\* An i8 vector of a length other than four reaches llvm_unreachable; the
\* family has none.
VectorType(s, Ty) ==
  IF Ty.elem = I8 /\ Ty.n = 4 THEN [s EXCEPT !.TypeMap = Put(@, Ty, lookupType(s, Ty.elem))]
  ELSE [PushBack(s, "OpTypeVector", s.nextID, <<MkId(lookupType(s, Ty.elem)), MkNum(Ty.n)>>) EXCEPT !.nextID = @ + 1]

FunctionType(s, FTy) ==
  LET Param(ParamTy) == IF IsPointerTy(ParamTy) /\ IsOpaqueStruct(ParamTy.elem) THEN ParamTy.elem ELSE ParamTy
  IN [PushBack(s, "OpTypeFunction", s.nextID,
               <<MkId(lookupType(s, FTy.ret))>> \o [k \in 1..Len(FTy.params) |-> MkId(lookupType(s, Param(FTy.params[k])))])
        EXCEPT !.nextID = @ + 1]

\* One turn of the loop over the type list.
GenerateType(x, Ty) ==
  LET x0 == [x EXCEPT !.s.TypeMap = Put(@, Ty, x.s.nextID)]
      s == x0.s
  IN CASE Ty.k = "ptr" -> PointerType(x0, Ty)
       [] Ty.k = "struct" -> StructType(x0, Ty)
       [] Ty.k = "int" -> [x0 EXCEPT !.s = IntegerType(s, Ty)]
       [] Ty.k = "float" -> [x0 EXCEPT !.s = [PushBack(s, "OpTypeFloat", s.nextID, <<MkNum(Ty.w)>>) EXCEPT !.nextID = @ + 1]]
       [] Ty.k = "array" -> [x0 EXCEPT !.s = ArrayType(s, Ty)]
       [] Ty.k = "vec" -> [x0 EXCEPT !.s = VectorType(s, Ty)]
       [] Ty.k = "void" -> [x0 EXCEPT !.s = [PushBack(s, "OpTypeVoid", s.nextID, <<>>) EXCEPT !.nextID = @ + 1]]
       [] Ty.k = "func" -> [x0 EXCEPT !.s = FunctionType(s, Ty)]
       [] Ty.k = "label" -> x0

\* The loop over ImageTypeMap, visiting its keys in the order images.
SampledImageTypes(s, images) ==
  Fold(LAMBDA t, ImgTy : [PushBack(t, "OpTypeSampledImage", t.nextID, <<MkId(Get(t.TypeMap, ImgTy))>>)
                            EXCEPT !.ImageTypeMap = Put(@, ImgTy, t.nextID), !.nextID = @ + 1],
       s, images, 1)

\* The types of the pointer-to-local arguments.
LocalArgTypes(s) ==
  Fold(LAMBDA t, arg :
         LET arg_info == t.LocalArgMap[arg]
             t1 == PushBack(t, "OpSpecConstant", arg_info.array_size_id, <<MkId(lookupType(t, I32)), MkNum(1)>>)
             t2 == PushBack(t1, "OpTypeArray", arg_info.array_type_id,
                            <<MkId(lookupType(t, arg_info.elem_type)), MkId(arg_info.array_size_id)>>)
         IN PushBack(t2, "OpTypePointer", arg_info.ptr_array_type_id, <<MkEnum("Workgroup"), MkId(arg_info.array_type_id)>>),
       s, s.LocalArgs, 1)

GenerateSPIRVTypes(s, images) ==
  LocalArgTypes(SampledImageTypes(Fold(GenerateType, [s |-> s, OpRuntimeTyMap |-> EmptyMap], s.Types, 1).s, images))

\* ------------------------------------------------------------------------
\* GenerateSPIRVConstants.
\* ------------------------------------------------------------------------

\* Bitwise or of two naturals.
RECURSIVE BitOr(_, _)
BitOr(a, b) == IF a = 0 THEN b ELSE IF b = 0 THEN a
               ELSE 2 * BitOr(a \div 2, b \div 2) + (IF a % 2 = 1 \/ b % 2 = 1 THEN 1 ELSE 0)

\* A packing that leaves the shift out.
PackedValueUnshifted(Cst) ==
  Fold(LAMBDA IntValue, e : BitOr(IntValue, (IF e.vk = "cint" THEN e.v ELSE 0) % 256), 0, ConstantOperands(Cst), 1)

\* uint32_t IntValue = 0; IntValue = (IntValue << 8) | (Val & 0xffu) over the
\* four elements, Val being 0 for an element that is no ConstantInt.  (Four
\* shifts by 8 from 0 never move a set bit out of the 32-bit word.)
PackedValue(Cst) ==
  LET elems == ConstantOperands(Cst)
  IN Fold(LAMBDA IntValue, e : BitOr(IntValue * 256, (IF e.vk = "cint" THEN e.v ELSE 0) % 256),
          0, elems, 1)

\* One turn of the loop over the constant list.  (The family has no integer
\* wider than 32 bits, no half or double, no string.)
GenerateConstant(s, Cst) ==
  IF Count(s.AllocatedValueMap, Cst) # 0 THEN s
  ELSE
    LET s0 == [s EXCEPT !.ValueMap = Put(@, Cst, s.nextID)]
        ResTy == MkId(lookupType(s0, Cst.ty))
        Emit(t, Opcode, Ops) == [PushBack(t, Opcode, t.nextID, Ops) EXCEPT !.nextID = @ + 1]
        CstInt == CInt(I32, PackedValue(Cst))
        Elements == [k \in 1..Len(ConstantOperands(Cst)) |-> MkId(Get(s0.ValueMap, ConstantOperands(Cst)[k]))]
    IN CASE Cst.vk = "undef" -> Emit(s0, "OpUndef", <<ResTy>>)
         [] Cst.vk = "cint" /\ Cst.ty.w = 1 -> Emit(s0, IF Cst.v # 0 THEN "OpConstantTrue" ELSE "OpConstantFalse", <<ResTy>>)
         [] Cst.vk = "cint" ->
              Emit([s0 EXCEPT !.constant_i32_zero_id_ = IF Cst.ty.w = 32 /\ Cst.v = 0 THEN s0.nextID ELSE @],
                   "OpConstant", <<ResTy, MkNum(Cst.v)>>)
         [] Cst.vk = "cfp" -> Emit(s0, "OpConstant", <<ResTy, MkFloat(Cst.fv)>>)
         [] Cst.vk \in {"cds", "cvec"} ->
              IF is4xi8vec(Cst.ty)
              THEN IF Count(s0.ValueMap, CstInt) # 0
                   THEN [s0 EXCEPT !.ValueMap = Put(@, Cst, s0.ValueMap[CstInt])]
                   ELSE Emit(s0, "OpConstant", <<ResTy, MkNum(PackedValue(Cst))>>)
              ELSE Emit(s0, "OpConstantComposite", <<ResTy>> \o Elements)
         [] Cst.vk = "caz" -> Emit(s0, "OpConstantNull", <<ResTy>>)

GenerateSPIRVConstants(s) == Fold(GenerateConstant, s, s.Constants, 1)

\* ------------------------------------------------------------------------
\* Variables, functions and instructions.
\* ------------------------------------------------------------------------

\* The value of the WorkgroupSize builtin: the constant composite of the
\* kernels' reqd_work_group_size, which has to be the same for all of them,
\* or a composite of three specialization constants when no kernel has one.
\* The result is the pass and InitializerID.
WorkgroupSizeValue(s, G) ==
  LET Composite(t, op, ids) ==
        [PushBack(t, op, t.nextID, <<MkId(lookupType(t, G.ty.elem))>> \o [k \in 1..3 |-> MkId(ids[k])]) EXCEPT !.nextID = @ + 1]
      PerKernel(w, Fn) ==
        LET MD == getMetadata(Fn)
            first == w.Prev = <<>>
            DimCstIDs == [k \in 1..3 |-> Get(w.s.ValueMap, CInt(I32, MD[k]))]
        IN IF ~Fn.kernel THEN w
           ELSE IF MD = <<>> THEN [w EXCEPT !.HasMDVec = Append(@, FALSE)]
           ELSE IF ~first /\ MD = w.Prev THEN w
           ELSE [w EXCEPT !.s = [Composite(w.s, "OpConstantComposite", DimCstIDs) EXCEPT !.unreachable = @ \/ ~first],
                          !.Prev = IF first THEN MD ELSE @,
                          !.InitializerID = w.s.nextID,
                          !.HasMDVec = Append(@, TRUE)]
      \* after the loop over the kernels, which leaves w1
      Value(w1) ==
        LET HasMD == Len(w1.HasMDVec) > 0 /\ w1.HasMDVec[1]
            s1 == [w1.s EXCEPT !.unreachable = @ \/ \E i \in 2..Len(w1.HasMDVec) : w1.HasMDVec[i] # w1.HasMDVec[1]]
            Dim(t, d) == [PushBack(t, "OpSpecConstant", t.nextID, <<MkId(lookupType(t, G.ty.elem.elem)), MkNum(1)>>)
                            EXCEPT !.nextID = @ + 1, !.BuiltinDimensionVec = Append(@, t.nextID)]
            Composed(s2) ==
              [s |-> Composite(s2, "OpSpecConstantComposite", s2.BuiltinDimensionVec), InitializerID |-> s2.nextID]
        IN IF HasMD THEN [s |-> s1, InitializerID |-> w1.InitializerID]
           ELSE Composed(Fold(Dim, s1, <<1, 2, 3>>, 1))
  IN Value(Fold(PerKernel, [s |-> s, Prev |-> <<>>, InitializerID |-> 0, HasMDVec |-> <<>>], s.module.funcs, 1))

\* The family has no module-scope constant; the initializer of an
\* argument's variable is an undef that has no id.  No kernel of the family
\* loads from the WorkgroupSize variable, whose ids (WorkgroupSizeValueID,
\* WorkgroupSizeVarID) are left out.
GenerateGlobalVar(s, G) ==
  LET BuiltinType == GetBuiltin(G.v)
      \* OpVariable and its decoration; w is the pass and the id of the builtin's value
      Variable(w) ==
        LET s0 == [w.s EXCEPT !.ValueMap = Put(@, G.v, w.s.nextID)]
            InitializerID == IF G.init.vk # "none" THEN Get(s0.ValueMap, G.init) ELSE w.InitializerID
            Ops == <<MkId(lookupType(s0, G.ty)), MkEnum(GetStorageClass(G.ty.as))>>
                   \o (IF InitializerID # 0 THEN <<MkId(InitializerID)>> ELSE <<>>)
            s1 == [PushBack(s0, "OpVariable", s0.nextID, Ops) EXCEPT !.nextID = @ + 1]
        IN IF BuiltinType # "Max"
           THEN Insert(s1, DecoInsertPoint(s1.SPIRVInsts), "OpDecorate", 0,
                       <<MkId(InitializerID), MkEnum("BuiltIn"), MkEnum(BuiltinType)>>)
           ELSE s1
  IN Variable(IF BuiltinType = "WorkgroupSize" THEN WorkgroupSizeValue(s, G) ELSE [s |-> s, InitializerID |-> 0])

GenerateWorkgroupVars(s) ==
  Fold(LAMBDA t, arg : PushBack(t, "OpVariable", t.LocalArgMap[arg].variable_id,
                                <<MkId(t.LocalArgMap[arg].ptr_array_type_id), MkEnum("Workgroup")>>),
       s, s.LocalArgs, 1)

\* No variable is taken to have its binding information emitted.
EmittedBindingInfoNever(s, NewGV) == FALSE

\* GVarWithEmittedBindingInfo.count(NewGV) is not 0.
EmittedBindingInfo(s, NewGV) == NewGV \in s.GVarWithEmittedBindingInfo

\* One turn of the loop over a kernel's arguments in GenerateFuncPrologue;
\* y carries the pass, the insert point, BindingIdx and arg_index.  The
\* kernels of the family have no kernel_arg_map metadata, so the turn writes
\* the argument's line of the descriptor map: a record of the line's
\* key/value tokens, the argument named by its position and the kind by the
\* type clspv::GetArgKindForType is applied to.
ArgBinding(y, Arg) ==
  LET ArgTy == TypeOf(y.s.module, Arg)
      line == IF ~IsLocalPtr(ArgTy)
              THEN [kernel |-> Arg.f, arg |-> Arg, argOrdinal |-> y.arg_index, descriptorSet |-> y.DescriptorSetIdx,
                    binding |-> y.BindingIdx, offset |-> 0, argKind |-> ArgTy]
              ELSE [kernel |-> Arg.f, arg |-> Arg, argOrdinal |-> y.arg_index, argKind |-> ArgTy,
                    arrayElemSize |-> TypeAllocSize(ArgTy.elem), arrayNumElemSpecId |-> Get(y.s.ArgSpecIdMap, Arg)]
      s == [y.s EXCEPT !.descriptorMapOut = Append(@, line)]
      NewGV == s.ArgumentGVMap[Arg]
      ArgID == Get(s.ValueMap, NewGV)
      s1 == [s EXCEPT !.ValueMap = Put(@, Arg, ArgID), !.ArgumentGVIDMap = Put(@, Arg, ArgID),
                      !.GVarWithEmittedBindingInfo = @ \cup {NewGV}]
      s2 == Insert(Insert(s1, y.point, "OpDecorate", 0, <<MkId(ArgID), MkEnum("DescriptorSet"), MkNum(y.DescriptorSetIdx)>>),
                   y.point, "OpDecorate", 0, <<MkId(ArgID), MkEnum("Binding"), MkNum(y.BindingIdx)>>)
      IsImage == IsPointerTy(ArgTy) /\ IsOpaqueStruct(ArgTy.elem) /\ ArgTy.elem.name \in ImageTypeNames
      ReadOnly == ArgTy.elem.name \in {"opencl.image2d_ro_t", "opencl.image3d_ro_t"}
      s3 == IF IsImage
            THEN Insert(s2, y.point, "OpDecorate", 0, <<MkId(ArgID), MkEnum(IF ReadOnly THEN "NonWritable" ELSE "NonReadable")>>)
            ELSE s2
      s4 == IF TypeOf(s.module, NewGV).as = "Constant"
            THEN Insert(s3, y.point, "OpDecorate", 0, <<MkId(ArgID), MkEnum("NonWritable")>>)
            ELSE s3
  IN IF IsLocalPtr(ArgTy) THEN [y EXCEPT !.s = s, !.arg_index = @ + 1]
     ELSE [y EXCEPT !.s = IF EmittedBindingInfo(s, NewGV) THEN s1 ELSE s4,
                    !.BindingIdx = @ + 1, !.arg_index = @ + 1]

\* The functions of the family carry no attribute (function control None).
GenerateFuncPrologue(s, F) ==
  LET Fv == FuncV(F.name)
      y0 == [s |-> s, point |-> DecoInsertPoint(s.SPIRVInsts), DescriptorSetIdx |-> s.NextDescriptorSetIndex,
             BindingIdx |-> 0, arg_index |-> 0]
      Param(t, Arg) == [PushBack(t, "OpFunctionParameter", t.nextID, <<MkId(lookupType(t, TypeOf(t.module, Arg)))>>)
                          EXCEPT !.ValueMap = Put(@, Arg, t.nextID), !.nextID = @ + 1]
      \* OpFunction; s1 is the pass after the loop over the arguments
      Function(s1) ==
        [PushBack(s1, "OpFunction", s1.nextID,
                  <<MkId(lookupType(s1, F.ret)), MkNum(0),
                    MkId(lookupType(s1, IF F.kernel THEN FuncTy(F.ret, <<>>) ELSE FuncTy(F.ret, F.args)))>>)
           EXCEPT !.EntryPointVec = IF F.kernel THEN Append(@, <<Fv, s1.nextID>>) ELSE @,
                  !.ValueMap = Put(@, Fv, s1.nextID),
                  !.nextID = @ + 1]
  IN IF F.kernel THEN Function(Fold(ArgBinding, y0, [a \in 1..Len(F.args) |-> ArgV(F.name, a)], 1).s)
     ELSE Fold(Param, Function(s), [a \in 1..Len(F.args) |-> ArgV(F.name, a)], 1)

\* The id of the i32 constant 0; the source reaches llvm_unreachable when
\* no such constant was generated.
GetI32Zero(s) == IF s.constant_i32_zero_id_ = 0 THEN Unhandled ELSE s.constant_i32_zero_id_

\* One turn of the loop over the arguments in GenerateInstForArg.
InstForArg(s, Arg) ==
  LET ArgTy == TypeOf(s.module, Arg)
      users == Users(s.module, Arg.f, Arg)
      info == s.LocalArgMap[Arg]
      HasOnlyGEPUse == \A U \in users : InstAt(s.module, U).op = "getelementptr"
      IsOpaque == IsPointerTy(ArgTy) /\ IsOpaqueStruct(ArgTy.elem) /\ ArgTy.elem.name \in ImageTypeNames \cup {"opencl.sampler_t"}
      Emit(t, op, Ops) == [PushBack(t, op, t.nextID, Ops) EXCEPT !.ValueMap = Put(@, Arg, t.nextID), !.nextID = @ + 1]
      pod == Emit(s, "OpAccessChain", <<MkId(lookupType(s, PtrTy(ArgTy, "Global"))), MkId(Get(s.ValueMap, Arg)), MkId(GetI32Zero(s))>>)
  IN IF users = {} THEN s
     ELSE IF IsLocalPtr(ArgTy)
     THEN PushBack([s EXCEPT !.ValueMap = Put(@, Arg, info.first_elem_ptr_id)], "OpAccessChain", info.first_elem_ptr_id,
                   <<MkId(lookupType(s, ArgTy)), MkId(info.variable_id), MkId(Get(s.ValueMap, CInt(I32, 0)))>>)
     ELSE IF IsOpaque
     THEN Emit(s, "OpLoad", <<MkId(lookupType(s, TypeOf(s.module, s.ArgumentGVMap[Arg]).elem)), MkId(Get(s.ValueMap, Arg))>>)
     ELSE IF IsPointerTy(ArgTy)
     THEN IF ~HasOnlyGEPUse
          THEN Emit(s, "OpAccessChain", <<MkId(lookupType(s, ArgTy)), MkId(Get(s.ValueMap, Arg)), MkId(GetI32Zero(s)), MkId(GetI32Zero(s))>>)
          ELSE s
     ELSE Emit(pod, "OpLoad", <<MkId(lookupType(s, ArgTy)), MkId(pod.nextID - 1)>>)

\* The extended instruction a builtin maps to directly ("Bad" when none),
\* for the builtins of the family, and the one it maps to with one more
\* instruction after it.
getExtInstEnum(Name) == IF Name = "_Z3absi" THEN "SAbs" ELSE "Bad"
\* No builtin lowered with a follow-up instruction.
getIndirectExtInstEnumNone(Name) == "Bad"

getIndirectExtInstEnum(Name) ==
  CASE Name \in {"_Z3clzi", "_Z3clzj"} -> "FindUMsb"
    [] Name = "_Z6acospif" -> "Acos"
    [] Name = "_Z6asinpif" -> "Asin"
    [] Name = "_Z7atan2piff" -> "Atan2"
    [] OTHER -> "Bad"
getDirectOrIndirectExtInstEnum(Name) == IF getExtInstEnum(Name) # "Bad" THEN getExtInstEnum(Name) ELSE getIndirectExtInstEnum(Name)

\* The family has no cast, no switch and no atomic; its binary operators
\* are the integer add and the xor of i1, its calls are of read_imagef or
\* deferred.
\* OpAccessChain for every getelementptr.
AccessChainAlways(HasArgBasePointer, First) == "OpAccessChain"

\* The opcode of a getelementptr with the first index First.
AccessChainOpcode(HasArgBasePointer, First) ==
  IF First.vk = "cint"
  THEN IF First.v = 0 /\ ~HasArgBasePointer THEN "OpAccessChain"
       ELSE IF First.v # 0 /\ ~HasArgBasePointer THEN "OpPtrAccessChain"
       ELSE "OpAccessChain"
  ELSE IF ~HasArgBasePointer THEN "OpPtrAccessChain" ELSE "OpAccessChain"

GenerateInstruction(s, iv) ==
  LET I == InstAt(s.module, iv)
      s0 == IF Get(s.ValueMap, iv) = 0 THEN [s EXCEPT !.ValueMap = Put(@, iv, s.nextID)] ELSE s
      V(x) == MkId(Get(s0.ValueMap, x))
      Emit(t, op, Ops) == [PushBack(t, op, t.nextID, Ops) EXCEPT !.nextID = @ + 1]
      \* getelementptr
      Ptr == I.ops[1]
      HasArgBasePointer == Ptr \in DOMAIN s0.ArgumentGVMap
      BaseID == IF HasArgBasePointer THEN Get(s0.ArgumentGVIDMap, Ptr) ELSE Get(s0.ValueMap, Ptr)
      IsCst == I.ops[2].vk = "cint"
      offset == IF IsCst /\ I.ops[2].v = 0 /\ ~HasArgBasePointer THEN 1 ELSE 0
      Opcode == AccessChainOpcode(HasArgBasePointer, I.ops[2])
      s1 == IF Opcode = "OpPtrAccessChain"
            THEN [s0 EXCEPT !.HasVariablePointers = TRUE,
                            !.TypesNeedingArrayStride = IF GetStorageClass(I.ty.as) = "StorageBuffer" THEN UVInsert(@, I.ty) ELSE @]
            ELSE s0
      Indexes == [k \in 1..(Len(I.ops) - 1 - offset) |-> V(I.ops[k + 1 + offset])]
      \* xor of i1 with a constant
      CondV == IF IsConstant(I.ops[1]) THEN I.ops[2] ELSE I.ops[1]
      \* extractelement and insertelement of <4 x i8>
      CompositeTy == TypeOf(s0.module, I.ops[1])
      ResTyID == lookupType(s0, CompositeTy)
      CstFFID == Get(s0.ValueMap, CInt(I32, 255))
      Index == I.ops[Len(I.ops)]
      multiplied == IF Index.vk = "cint" THEN s0
                    ELSE Emit(s0, "OpIMul", <<MkId(lookupType(s0, I32)), V(Index), V(CInt(I32, 8))>>)
      ShiftAmountID == IF Index.vk = "cint" THEN Get(s0.ValueMap, CInt(I32, Index.v * 8)) ELSE s0.nextID
      ShiftID == multiplied.nextID
      shifted == Emit(multiplied, "OpShiftRightLogical", <<MkId(ResTyID), V(I.ops[1]), MkId(ShiftAmountID)>>)
      MaskID == multiplied.nextID
      masked == Emit(Emit(multiplied, "OpShiftLeftLogical", <<MkId(ResTyID), MkId(CstFFID), MkId(ShiftAmountID)>>),
                     "OpNot", <<MkId(ResTyID), MkId(MaskID)>>)
      applied == Emit(Emit(masked, "OpBitwiseAnd", <<MkId(ResTyID), V(I.ops[1]), MkId(MaskID + 1)>>),
                      "OpShiftLeftLogical", <<MkId(ResTyID), V(I.ops[2]), MkId(ShiftAmountID)>>)
      \* read_imagef
      ImageTyID == Get(s0.ImageTypeMap, TypeOf(s0.module, I.ops[1]).elem)
      sampled == Emit(s0, "OpSampledImage", <<MkId(ImageTyID), V(I.ops[1]), V(I.ops[2])>>)
      \* a deferred call
      deferred == [s0 EXCEPT !.DeferredInstVec = Append(@, [inst |-> iv, it |-> s0.SPIRVInsts[Len(s0.SPIRVInsts)].n, id |-> s0.nextID]),
                             !.nextID = @ + 1]
  IN CASE I.op = "br" -> [s0 EXCEPT !.DeferredInstVec = Append(@, [inst |-> iv, it |-> s0.SPIRVInsts[Len(s0.SPIRVInsts)].n, id |-> 0])]
       [] I.op = "phi" -> deferred
       [] I.op = "add" -> Emit(s0, "OpIAdd", <<MkId(lookupType(s0, I.ty)), V(I.ops[1]), V(I.ops[2])>>)
       [] I.op = "getelementptr" ->
            Emit(s1, Opcode, <<MkId(lookupType(s0, I.ty)), MkId(BaseID)>>
                             \o (IF HasArgBasePointer THEN <<V(CInt(I32, 0))>> ELSE <<>>) \o Indexes)
       [] I.op = "xor" ->
            IF I.ty = I1 /\ (IsConstant(I.ops[1]) \/ IsConstant(I.ops[2]))
            THEN Emit(s0, "OpLogicalNot", <<MkId(lookupType(s0, I.ty)), V(CondV)>>)
            ELSE Emit(s0, IF I.ty = I1 THEN "OpLogicalNotEqual" ELSE "OpBitwiseXor",
                      <<MkId(lookupType(s0, I.ty)), V(I.ops[1]), V(I.ops[2])>>)
       [] I.op = "extractelement" ->
            IF is4xi8vec(CompositeTy)
            THEN Emit([shifted EXCEPT !.ValueMap = Put(@, iv, shifted.nextID)], "OpBitwiseAnd",
                      <<MkId(ResTyID), MkId(ShiftID), MkId(CstFFID)>>)
            ELSE IF Index.vk = "cint"
            THEN Emit(s0, "OpCompositeExtract", <<MkId(lookupType(s0, I.ty)), V(I.ops[1]), MkNum(Index.v)>>)
            ELSE Emit(s0, "OpVectorExtractDynamic", <<MkId(lookupType(s0, I.ty)), V(I.ops[1]), V(Index)>>)
       [] I.op = "insertelement" ->
            IF is4xi8vec(CompositeTy)
            THEN Emit([applied EXCEPT !.ValueMap = Put(@, iv, applied.nextID)], "OpBitwiseOr",
                      <<MkId(ResTyID), MkId(MaskID + 2), MkId(MaskID + 3)>>)
            ELSE Emit(s0, IF Index.vk = "cint" THEN "OpCompositeInsert" ELSE "OpVectorInsertDynamic",
                      <<MkId(lookupType(s0, I.ty)), V(I.ops[2]), V(I.ops[1]),
                        IF Index.vk = "cint" THEN MkNum(Index.v) ELSE V(I.ops[2])>>)
       [] I.op = "alloca" -> Emit(s0, "OpVariable", <<MkId(lookupType(s0, I.ty)), MkEnum("Function")>>)
       [] I.op = "load" -> Emit(s0, "OpLoad", <<MkId(lookupType(s0, I.ty)), V(I.ops[1])>>)
       [] I.op = "store" -> PushBack(s0, "OpStore", 0, <<V(I.ops[2]), V(I.ops[1])>>)
       [] I.op = "call" ->
            IF I.callee \in ReadImageNames
            THEN Emit([sampled EXCEPT !.ValueMap = Put(@, iv, sampled.nextID)], "OpImageSampleExplicitLod",
                      <<MkId(lookupType(s0, I.ty)), MkId(s0.nextID), V(I.ops[3]), MkEnum("Lod"), V(CFP(FloatTy, "0.0"))>>)
            ELSE IF getIndirectExtInstEnum(I.callee) # "Bad"
            THEN [deferred EXCEPT !.ValueMap = Put(@, iv, deferred.nextID), !.nextID = @ + 1]
            ELSE deferred
       [] I.op = "ret" -> PushBack(s0, IF Len(I.ops) = 0 THEN "OpReturn" ELSE "OpReturnValue", 0, [k \in 1..Len(I.ops) |-> V(I.ops[k])])

GenerateFuncBody(s, F) ==
  LET Block(t, b) ==
        LET BB == [i \in 1..Len(F.blocks[b]) |-> InstV(F.name, b, i)]
            IsAlloca(iv) == InstAt(t.module, iv).op = "alloca"
            t1 == [PushBack(t, "OpLabel", t.nextID, <<>>) EXCEPT !.ValueMap = Put(@, BlockV(F.name, b), t.nextID), !.nextID = @ + 1]
            t2 == Fold(LAMBDA u, iv : IF IsAlloca(iv) THEN GenerateInstruction(u, iv) ELSE u, t1, BB, 1)
            t3 == IF b = 1 /\ F.kernel THEN Fold(InstForArg, t2, [a \in 1..Len(F.args) |-> ArgV(F.name, a)], 1) ELSE t2
        IN Fold(LAMBDA u, iv : IF IsAlloca(iv) THEN u ELSE GenerateInstruction(u, iv), t3, BB, 1)
  IN Fold(Block, s, [b \in 1..Len(F.blocks) |-> b], 1)

GenerateFuncEpilogue(s) == PushBack(s, "OpFunctionEnd", 0, <<>>)

\* ------------------------------------------------------------------------
\* The deferred instructions and decorations, and the module information.
\* ------------------------------------------------------------------------

\* A continue target that is the header always.
ContinueBlockHeader(F, BrBB) == BrBB

\* The continue target of the loop of header BrBB: the header when it is a
\* latch, otherwise the last block of L->blocks() other than the header that
\* dominates the latch, null (0) when there is none.  L->blocks() is in
\* reverse postorder, which is the order of the function in the family, and
\* the loops of the family have one latch.
ContinueBlock(F, BrBB) ==
  LET L == LoopFor(F, BrBB)
      Latch == CHOOSE t \in L.latches : TRUE
      found == {BB \in L.blocks \ {BrBB} : dominates(F, BB, Latch)}
  IN IF BrBB \in L.latches THEN BrBB
     ELSE IF found = {} THEN 0
     ELSE CHOOSE BB \in found : \A o \in found : o <= BB

\* One deferred instruction: a branch with the merge instruction of its
\* block, a phi, or a call; the calls of a builtin become OpExtInst, any
\* other call OpFunctionCall.
HandleDeferred(s, D) ==
  LET CallI == InstAt(s.module, D.inst)
      list == s.SPIRVInsts
      after == {i \in (PosOf(list, D.it) + 1)..Len(list) : list[i].op # "OpPhi"}
      InsertPoint == IF after = {} THEN EndIt ELSE list[CHOOSE i \in after : \A j \in after : i <= j].n
      EInst == getDirectOrIndirectExtInstEnum(CallI.callee)
      Args == [i \in 1..(Len(CallI.ops) - 1) |-> MkId(Get(s.ValueMap, CallI.ops[i]))]
      ext == Insert(s, InsertPoint, "OpExtInst", D.id,
                    <<MkId(lookupType(s, CallI.ty)), MkId(s.OpExtInstImportID), MkEnum(EInst)>> \o Args)
      \* a branch
      BrI == CallI
      Fn == s.module.funcs[FuncNamed(s.module, D.inst.f)]
      BrBB == D.inst.b
      V(x) == MkId(Get(s.ValueMap, x))
      Block(b) == IF b = 0 THEN MkId(Unhandled) ELSE V(BlockV(D.inst.f, b))
      isConditional == Len(BrI.ops) = 3
      Successor(i) == BrI.ops[Len(BrI.ops) - i]
      merged == IF isLoopHeader(Fn, BrBB)
                THEN Insert(s, InsertPoint, "OpLoopMerge", 0,
                            <<Block(getExitBlock(Fn, BrBB)), Block(ContinueBlock(Fn, BrBB)), MkEnum("None")>>)
                ELSE IF isConditional /\ \A i \in {0, 1} : ~isLoopHeader(Fn, Successor(i).b)
                THEN Insert(s, InsertPoint, "OpSelectionMerge", 0, <<V(Successor(1)), MkEnum("None")>>)
                ELSE s
      \* a phi
      PHI == CallI
      Incoming == [k \in 1..(2 * Len(PHI.ops)) |-> IF k % 2 = 1 THEN V(PHI.ops[(k + 1) \div 2]) ELSE V(PHI.blocks[k \div 2])]
  IN IF CallI.op = "br"
     THEN IF isConditional
          THEN Insert(merged, InsertPoint, "OpBranchConditional", 0, <<V(BrI.ops[1]), V(Successor(0)), V(Successor(1))>>)
          ELSE Insert(merged, InsertPoint, "OpBranch", 0, <<V(Successor(0))>>)
     ELSE IF CallI.op = "phi"
     THEN Insert(s, InsertPoint, "OpPhi", D.id, <<MkId(lookupType(s, PHI.ty))>> \o Incoming)
     ELSE IF EInst # "Bad"
     THEN IF getIndirectExtInstEnum(CallI.callee) = "FindUMsb"
          THEN Insert(ext, InsertPoint, "OpISub", D.id + 1,
                      <<MkId(lookupType(s, CallI.ty)), MkId(Get(s.ValueMap, CInt(I32, 31))), MkId(D.id)>>)
          ELSE IF getIndirectExtInstEnum(CallI.callee) \in {"Acos", "Asin", "Atan2"}
          THEN Insert(ext, InsertPoint, "OpFMul", D.id + 1,
                      <<MkId(lookupType(s, CallI.ty)), MkId(Get(s.ValueMap, CFP(FloatTy, kOneOverPi))), MkId(D.id)>>)
          ELSE ext
     ELSE Insert(s, InsertPoint, "OpFunctionCall", D.id,
                 <<MkId(lookupType(s, CallI.ty)), MkId(Get(s.ValueMap, FuncV(CallI.callee)))>> \o Args)

\* The deferred records resolved first to last.
HandleDeferredInstructionForward(s) == Fold(HandleDeferred, s, s.DeferredInstVec, 1)

HandleDeferredInstruction(s) ==
  Fold(HandleDeferred, s, [i \in 1..Len(s.DeferredInstVec) |-> s.DeferredInstVec[Len(s.DeferredInstVec) + 1 - i]], 1)

\* std::find_if with seen_decorations: the first instruction that is no
\* decoration and follows a decoration; end() when there is none.
PastLastDecoration(list) ==
  LET IsDeco(i) == list[i].op \in {"OpDecorate", "OpMemberDecorate"}
      after == {i \in 1..Len(list) : ~IsDeco(i) /\ \E j \in 1..(i - 1) : IsDeco(j)}
  IN IF after = {} THEN EndIt ELSE list[CHOOSE i \in after : \A j \in after : i <= j].n

HandleDeferredDecorations(s) ==
  LET point == PastLastDecoration(s.SPIRVInsts)
      Stride(t, type) == Insert(t, point, "OpDecorate", 0,
                                <<MkId(lookupType(t, type)), MkEnum("ArrayStride"), MkNum(TypeAllocSize(type.elem))>>)
      SpecId(t, arg) == Insert(t, point, "OpDecorate", 0,
                               <<MkId(t.LocalArgMap[arg].array_size_id), MkEnum("SpecId"), MkNum(t.LocalArgMap[arg].spec_id)>>)
  IN IF Len(s.TypesNeedingArrayStride) = 0 /\ Len(s.LocalArgs) = 0 THEN s
     ELSE Fold(SpecId, Fold(Stride, s, s.TypesNeedingArrayStride, 1), s.LocalArgs, 1)

\* An InsertPoint that is not moved past the import.
PastExtInstImportNot(s) == s.SPIRVInsts[1].n

\* InsertPoint after "if (ExtInstImportID) ++InsertPoint", InsertPoint being
\* begin() of the list as it is before the capabilities are inserted.
PastExtInstImport(s) ==
  IF s.OpExtInstImportID # 0
  THEN (IF Len(s.SPIRVInsts) > 1 THEN s.SPIRVInsts[2].n ELSE EndIt)
  ELSE s.SPIRVInsts[1].n

\* The flag that GenerateInstruction sets on an OpPtrAccessChain.
hasVariablePointersFlag(s) == s.HasVariablePointers

\* "We use StorageBuffer everywhere": the flag is not read.
hasVariablePointers(s) == TRUE

\* The family has no image query.
GenerateModuleInfo(s) ==
  LET begin == s.SPIRVInsts[1].n
      Cap(Ty) == CASE Ty.k = "int" /\ Ty.w = 16 -> <<"Int16">>
                   [] Ty.k = "int" /\ Ty.w = 64 -> <<"Int64">>
                   [] Ty.k = "float" /\ Ty.w = 16 -> <<"Float16">>
                   [] Ty.k = "float" /\ Ty.w = 64 -> <<"Float64">>
                   [] IsOpaqueStruct(Ty) /\ Ty.name \in {"opencl.image2d_wo_t", "opencl.image3d_wo_t"} -> <<"StorageImageWriteWithoutFormat">>
                   [] OTHER -> <<>>
      AddCap(t, c) == Insert(t, begin, "OpCapability", 0, <<MkEnum(c)>>)
      s1 == Fold(LAMBDA t, Ty : Fold(AddCap, t, Cap(Ty), 1), AddCap(s, "Shader"), s.Types, 1)
      s2 == IF hasVariablePointers(s)
            THEN Fold(LAMBDA t, e : Insert(t, begin, "OpExtension", 0, <<MkString(e)>>), AddCap(s1, "VariablePointers"),
                      <<"SPV_KHR_storage_buffer_storage_class", "SPV_KHR_variable_pointers">>, 1)
            ELSE s1
      InsertPoint == PastExtInstImport(s)
      s3 == Insert(s2, InsertPoint, "OpMemoryModel", 0, <<MkEnum("Logical"), MkEnum("GLSL450")>>)
      s4 == Fold(LAMBDA t, EntryPoint :
                   Insert(t, InsertPoint, "OpEntryPoint", 0,
                          <<MkEnum("GLCompute"), MkId(EntryPoint[2]), MkString(EntryPoint[1].name)>>
                          \o [k \in 1..Len(t.EntryPointInterfacesVec) |-> MkId(Get(t.ValueMap, t.EntryPointInterfacesVec[k]))]),
                 s3, s.EntryPointVec, 1)
      ExecutionMode(t, EntryPoint) ==
        LET MD == getMetadata(t.module.funcs[FuncNamed(t.module, EntryPoint[1].name)])
        IN IF MD = <<>> THEN t
           ELSE Insert([t EXCEPT !.unreachable = @ \/ Len(t.BuiltinDimensionVec) # 0], InsertPoint, "OpExecutionMode", 0,
                       <<MkId(EntryPoint[2]), MkEnum("LocalSize"), MkNum(MD[1]), MkNum(MD[2]), MkNum(MD[3])>>)
      s4m == Fold(ExecutionMode, s4, s.EntryPointVec, 1)
      s5 == Insert(s4m, InsertPoint, "OpSource", 0, <<MkEnum("OpenCL_C"), MkNum(120)>>)
  IN IF Len(s.BuiltinDimensionVec) = 0 THEN s5
     ELSE Fold(LAMBDA t, d : Insert(t, InsertPoint, "OpDecorate", 0, <<MkId(s.BuiltinDimensionVec[d]), MkEnum("SpecId"), MkNum(d - 1)>>),
               s5, <<1, 2, 3>>, 1)

\* ------------------------------------------------------------------------
\* runOnModule, phase by phase.
\* ------------------------------------------------------------------------

\* The words of the SPIR-V header.
MagicNumber == 119734787
Version == 65536
Vendor == 196608
Schema == 0

\* The first specialization id given to a pointer-to-local argument.
FirstArgSpecId == 3

\* AllocateArgSpecIds: one id per pointer-to-local kernel argument, in the
\* order of the kernels and of their arguments.
AllocateArgSpecIds(M) ==
  LET PerFunc(m, F) ==
        IF ~F.kernel THEN m
        ELSE Fold(LAMBDA n, a : IF IsLocalPtr(F.args[a]) THEN Put(n, ArgV(F.name, a), FirstArgSpecId + Cardinality(DOMAIN n)) ELSE n,
                  m, [a \in 1..Len(F.args) |-> a], 1)
  IN Fold(PerFunc, EmptyMap, M.funcs, 1)

\* outputHeader: the bound word holds the current nextID for now, and
\* patchBoundOffset is its position (in words).
outputHeader(s) ==
  [s EXCEPT !.out.header = <<MagicNumber, Version, Vendor, s.nextID, Schema>>,
            !.patchBoundOffset = 3]

\* The loop over the global variables: their types and their initializers
\* that are not undef.  (No variable of the family is an input.)
FindGlobalVars(s) ==
  Fold(LAMBDA t, G : LET t1 == FindType(t, G.ty) IN IF G.init.vk \notin {"none", "undef"} THEN FindConstant(t1, G.init) ELSE t1,
       s, s.module.globals, 1)

\* The loop over ArgSpecIdMap, visiting its keys in the order args.
FindLocalArgTypes(s, args) ==
  Fold(LAMBDA t, arg : FindType(FindType(t, TypeOf(t.module, arg)), TypeOf(t.module, arg).elem), s, args, 1)

\* FindExtInst, and GenerateExtInstImport when it finds a call of a builtin
\* that maps to an extended instruction.
FindExtInst(s) ==
  LET calls == {iv \in UNION {{x \in DOMAIN [i \in {} |-> 0] : FALSE}} : FALSE}
      PerInst(t, iv) ==
        LET I == InstAt(s.module, iv)
        IN IF I.op = "call" /\ getIndirectExtInstEnum(I.callee) = "FindUMsb"
           THEN FindConstant(FindType(t, I32), CInt(I32, 31))
           ELSE IF I.op = "call" /\ getIndirectExtInstEnum(I.callee) \in {"Acos", "Asin", "Atan2"}
           THEN FindConstant(FindType(t, FloatTy), CFP(FloatTy, kOneOverPi))
           ELSE t
      HasExtInst == \E f \in 1..Len(s.module.funcs) :
                      LET ivs == InstValues(s.module.funcs[f], 1)
                      IN \E k \in 1..Len(ivs) : InstAt(s.module, ivs[k]).op = "call"
                                               /\ getDirectOrIndirectExtInstEnum(InstAt(s.module, ivs[k]).callee) # "Bad"
      s1 == Fold(LAMBDA t, F : Fold(PerInst, t, InstValues(F, 1), 1), s, s.module.funcs, 1)
  IN IF HasExtInst
     THEN [PushBack(s1, "OpExtInstImport", s1.nextID, <<MkString("GLSL.std.450")>>)
             EXCEPT !.OpExtInstImportID = s1.nextID, !.nextID = @ + 1]
     ELSE s1

\* WriteSPIRVBinary writes the instructions in list order; patchHeader
\* overwrites the bound word with nextID.
WriteSPIRVBinary(s) ==
  [s EXCEPT !.out.insts = [i \in 1..Len(s.SPIRVInsts) |-> [op |-> s.SPIRVInsts[i].op, id |-> s.SPIRVInsts[i].id, ops |-> s.SPIRVInsts[i].ops]]]

\* A pass that leaves the bound word as first written.
patchHeaderNot(s) == s

patchHeader(s) == [s EXCEPT !.out.header[s.patchBoundOffset + 1] = s.nextID]

\* llvm_unreachable was reached while computing s: an instruction or a type
\* carries the id Unhandled.  A build with assertions stops there; a build
\* without them goes on, the lookup giving 0.
HitsUnreachable(s) ==
  \/ \E i \in 1..Len(s.SPIRVInsts) : \E j \in 1..Len(s.SPIRVInsts[i].ops) : s.SPIRVInsts[i].ops[j] = MkId(Unhandled)
  \/ \E Ty \in DOMAIN s.TypeMap : s.TypeMap[Ty] = Unhandled
  \/ s.unreachable /\ ~unreachable

GoesOn(s) ==
  [s EXCEPT !.SPIRVInsts = [i \in 1..Len(@) |-> [@[i] EXCEPT !.ops = [j \in 1..Len(@) |-> IF @[j] = MkId(Unhandled) THEN MkId(0) ELSE @[j]]]],
            !.TypeMap = [Ty \in DOMAIN @ |-> IF @[Ty] = Unhandled THEN 0 ELSE @[Ty]],
            !.unreachable = @ \/ HitsUnreachable(s)]

Outcomes(s) ==
  IF HitsUnreachable(s) THEN {[abort |-> TRUE, s |-> [St EXCEPT !.unreachable = TRUE]], [abort |-> FALSE, s |-> GoesOn(s)]}
  ELSE {[abort |-> FALSE, s |-> s]}

\* A phase: from pc = from the pass becomes s, control goes to pc = to with
\* the function index f.
Phase(from, to, f, s) ==
  /\ pc = from
  /\ \E o \in Outcomes(s) :
       /\ pc' = IF o.abort THEN "aborted" ELSE to
       /\ fn' = f
       /\ stack' = stack
       /\ Assign(o.s)

\* The whole of runOnModule on M for a build that goes on past
\* llvm_unreachable, the two pointer-keyed maps being visited in the orders
\* args and images.
FunctionLoop(s) ==
  Fold(LAMBDA t, F : GoesOn(GenerateFuncEpilogue(GoesOn(GenerateFuncBody(GoesOn(GenerateFuncPrologue(t, F)), F)))),
       s, s.module.funcs, 1)

BeforeTypes(M) ==
  GoesOn(FindGlobalVars(GoesOn(GenerateLLVMIRInfo(outputHeader([Fresh(M) EXCEPT !.ArgSpecIdMap = AllocateArgSpecIds(M)])))))

AfterTypes(s) ==
  LET s1 == GoesOn(GenerateSPIRVConstants(s))
      s2 == GoesOn(GenerateWorkgroupVars(GoesOn(Fold(GenerateGlobalVar, s1, s1.module.globals, 1))))
      s3 == GoesOn(HandleDeferredDecorations(GoesOn(HandleDeferredInstruction(FunctionLoop(s2)))))
  IN patchHeader(WriteSPIRVBinary(GoesOn(GenerateModuleInfo(s3))))

runOnModule(M, args, images) ==
  LET s1 == GoesOn(FindExtInst(GoesOn(FindLocalArgTypes(BeforeTypes(M), args))))
  IN AfterTypes(GoesOn(GenerateSPIRVTypes(s1, images)))

Init ==
  /\ pc = "AllocateArgSpecIds"
  /\ fn = 0
  /\ \E M \in Modules :
       LET s == Fresh(M)
       IN /\ module = s.module
          /\ out = s.out
          /\ patchBoundOffset = s.patchBoundOffset
          /\ nextID = s.nextID
          /\ nodes = s.nodes
          /\ Types = s.Types
          /\ Constants = s.Constants
          /\ TypeMap = s.TypeMap
          /\ ImageTypeMap = s.ImageTypeMap
          /\ ValueMap = s.ValueMap
          /\ AllocatedValueMap = s.AllocatedValueMap
          /\ SPIRVInsts = s.SPIRVInsts
          /\ ArgumentGVMap = s.ArgumentGVMap
          /\ ArgumentGVIDMap = s.ArgumentGVIDMap
          /\ EntryPointVec = s.EntryPointVec
          /\ DeferredInstVec = s.DeferredInstVec
          /\ EntryPointInterfacesVec = s.EntryPointInterfacesVec
          /\ OpExtInstImportID = s.OpExtInstImportID
          /\ BuiltinDimensionVec = s.BuiltinDimensionVec
          /\ HasVariablePointers = s.HasVariablePointers
          /\ TypesNeedingArrayStride = s.TypesNeedingArrayStride
          /\ GVarWithEmittedBindingInfo = s.GVarWithEmittedBindingInfo
          /\ LocalArgs = s.LocalArgs
          /\ LocalArgMap = s.LocalArgMap
          /\ NextDescriptorSetIndex = s.NextDescriptorSetIndex
          /\ ArgSpecIdMap = s.ArgSpecIdMap
          /\ constant_i32_zero_id_ = s.constant_i32_zero_id_
          /\ descriptorMapOut = s.descriptorMapOut
          /\ unreachable = s.unreachable
  /\ stack = <<>>

DoAllocateArgSpecIds == Phase("AllocateArgSpecIds", "outputHeader", fn, [St EXCEPT !.ArgSpecIdMap = AllocateArgSpecIds(module)])
DooutputHeader == Phase("outputHeader", "GenerateLLVMIRInfo", fn, outputHeader(St))
DoGenerateLLVMIRInfo == Phase("GenerateLLVMIRInfo", "FindGlobalVars", fn, GenerateLLVMIRInfo(St))
DoFindGlobalVars == Phase("FindGlobalVars", "FindLocalArgTypes", fn, FindGlobalVars(St))
DoFindLocalArgTypes ==
  \E args \in Orders(DOMAIN ArgSpecIdMap) : Phase("FindLocalArgTypes", "FindExtInst", fn, FindLocalArgTypes(St, args))
DoFindExtInst == Phase("FindExtInst", "GenerateSPIRVTypes", fn, FindExtInst(St))
DoGenerateSPIRVTypes ==
  \E images \in Orders(DOMAIN ImageTypeMap) : Phase("GenerateSPIRVTypes", "GenerateSPIRVConstants", fn, GenerateSPIRVTypes(St, images))
DoGenerateSPIRVConstants == Phase("GenerateSPIRVConstants", "GenerateGlobalVar", fn, GenerateSPIRVConstants(St))
DoGenerateGlobalVar == Phase("GenerateGlobalVar", "GenerateWorkgroupVars", fn, Fold(GenerateGlobalVar, St, module.globals, 1))
DoGenerateWorkgroupVars == Phase("GenerateWorkgroupVars", "GenerateFuncPrologue", 1, GenerateWorkgroupVars(St))
DoGenerateFuncPrologue == Phase("GenerateFuncPrologue", "GenerateFuncBody", fn, GenerateFuncPrologue(St, module.funcs[fn]))
DoGenerateFuncBody == Phase("GenerateFuncBody", "GenerateFuncEpilogue", fn, GenerateFuncBody(St, module.funcs[fn]))
DoGenerateFuncEpilogue ==
  Phase("GenerateFuncEpilogue", IF fn < Len(module.funcs) THEN "GenerateFuncPrologue" ELSE "HandleDeferredInstruction",
        IF fn < Len(module.funcs) THEN fn + 1 ELSE fn, GenerateFuncEpilogue(St))
DoHandleDeferredInstruction == Phase("HandleDeferredInstruction", "HandleDeferredDecorations", fn, HandleDeferredInstruction(St))
DoHandleDeferredDecorations == Phase("HandleDeferredDecorations", "GenerateModuleInfo", fn, HandleDeferredDecorations(St))
DoGenerateModuleInfo == Phase("GenerateModuleInfo", "WriteSPIRVBinary", fn, GenerateModuleInfo(St))
DoWriteSPIRVBinary == Phase("WriteSPIRVBinary", "patchHeader", fn, WriteSPIRVBinary(St))
DopatchHeader == Phase("patchHeader", "done", fn, patchHeader(St))

Next ==
  \/ DoAllocateArgSpecIds
  \/ DooutputHeader
  \/ DoGenerateLLVMIRInfo
  \/ DoFindGlobalVars
  \/ DoFindLocalArgTypes
  \/ DoFindExtInst
  \/ DoGenerateSPIRVTypes
  \/ DoGenerateSPIRVConstants
  \/ DoGenerateGlobalVar
  \/ DoGenerateWorkgroupVars
  \/ DoGenerateFuncPrologue
  \/ DoGenerateFuncBody
  \/ DoGenerateFuncEpilogue
  \/ DoHandleDeferredInstruction
  \/ DoHandleDeferredDecorations
  \/ DoGenerateModuleInfo
  \/ DoWriteSPIRVBinary
  \/ DopatchHeader

Spec == Init /\ [][Next]_vars


\* ------------------------------------------------------------------------
\* Properties of the emitted module.
\* ------------------------------------------------------------------------

\* The ids among the operands of an instruction.
IdOperands(I) == {I.ops[j].v : j \in {k \in 1..Len(I.ops) : I.ops[k].t = "id"}}

HasOp(list, op) == \E i \in 1..Len(list) : list[i].op = op

NoSharedId(list) ==
  \A i, j \in 1..Len(list) : (i # j /\ list[i].id # 0) => list[i].id # list[j].id

\* C1: the output is a function of the input module: whatever the orders in
\* which the pointer-keyed maps are iterated, the run ends with the
\* instruction list and the id bound of the run that iterates them in one
\* fixed order.
C1_OutputIndependentOfMapOrder ==
  pc = "done" => out = runOnModule(Module(module.funcs), SeqOfSet(DOMAIN ArgSpecIdMap), SeqOfSet(DOMAIN ImageTypeMap)).out

\* C2: at the end every id in [1, bound) is the result id of an instruction.
C2_EveryIdBelowBoundIsDefined ==
  pc = "done" => \A k \in 1..(out.header[patchBoundOffset + 1] - 1) : \E i \in 1..Len(out.insts) : out.insts[i].id = k

\* C3: no step decreases nextID, and no two instructions of the list, nor
\* of the written module, carry the same result id, which is below nextID.
C3_IdsHandedOutOnce ==
  [][/\ nextID' >= nextID
     /\ NoSharedId(SPIRVInsts') /\ NoSharedId(out'.insts)
     /\ \A i \in 1..Len(SPIRVInsts') : SPIRVInsts'[i].id < nextID']_vars

\* A finished run over a kernel that uses a pointer-to-local argument (its
\* first-element id carried by an OpAccessChain) and calls clz (OpExtInst
\* and OpISub).
C3_Witness ==
  /\ pc = "done"
  /\ HasOp(out.insts, "OpISub")
  /\ \E a \in DOMAIN LocalArgMap : \E i \in 1..Len(out.insts) :
        out.insts[i].op = "OpAccessChain" /\ out.insts[i].id = LocalArgMap[a].first_elem_ptr_id

TypeDeclaringOps ==
  {"OpTypePointer", "OpTypeRuntimeArray", "OpTypeStruct", "OpTypeArray", "OpTypeVector", "OpTypeFunction",
   "OpTypeImage", "OpTypeSampledImage"}

C5_BoundPatchedAfterLastId ==
  [][/\ pc' = "done" =>
          /\ out'.header[patchBoundOffset' + 1] = nextID'
          /\ \A i \in 1..Len(out'.insts) :
                out'.insts[i].id < nextID' /\ \A v \in IdOperands(out'.insts[i]) : v < nextID'
     /\ pc \in {"patchHeader", "done"} => nextID' = nextID]_vars

\* A finished run whose bound word differs from the word first written.
C5_Witness ==
  pc = "done" /\ Len(out.insts) > 0 /\ out.header[patchBoundOffset + 1] = nextID /\ nextID > 1

\* The place of an opcode in the head of a module; 8 is past the head.
Rank(op) ==
  CASE op = "OpCapability" -> 1
    [] op = "OpExtension" -> 2
    [] op = "OpExtInstImport" -> 3
    [] op = "OpMemoryModel" -> 4
    [] op = "OpEntryPoint" -> 5
    [] op = "OpExecutionMode" -> 6
    [] op = "OpSource" -> 7
    [] OTHER -> 8

NumOp(list, op) == Cardinality({i \in 1..Len(list) : list[i].op = op})

\* C6: the written module starts with the capabilities, then the
\* extensions, the import if any, one OpMemoryModel, one OpEntryPoint per
\* kernel, the execution modes and one OpSource, in this order, and every
\* other instruction comes after them.
C6_HeadSectionOrder ==
  pc = "done" =>
    /\ \A i, j \in 1..Len(out.insts) : i < j => Rank(out.insts[i].op) <= Rank(out.insts[j].op)
    /\ NumOp(out.insts, "OpCapability") >= 1
    /\ NumOp(out.insts, "OpExtInstImport") = (IF OpExtInstImportID # 0 THEN 1 ELSE 0)
    /\ NumOp(out.insts, "OpMemoryModel") = 1
    /\ NumOp(out.insts, "OpEntryPoint") = Cardinality({f \in 1..Len(module.funcs) : module.funcs[f].kernel})
    /\ NumOp(out.insts, "OpSource") = 1

\* A finished run with an import, with decorations and with a function.
C6_Witness ==
  pc = "done" /\ HasOp(out.insts, "OpExtInstImport") /\ HasOp(out.insts, "OpDecorate") /\ HasOp(out.insts, "OpFunction")

IsDecoration(I) == I.op \in {"OpDecorate", "OpMemberDecorate"}

\* C7: in the written module nothing but the head and other decorations
\* comes before an OpDecorate of ArrayStride or SpecId.
C7_DeferredDecorationsInBlock ==
  pc = "done" =>
    \A i \in 1..Len(out.insts) :
       (out.insts[i].op = "OpDecorate" /\ out.insts[i].ops[2] \in {MkEnum("ArrayStride"), MkEnum("SpecId")}) =>
         \A j \in 1..(i - 1) : Rank(out.insts[j].op) < 8 \/ IsDecoration(out.insts[j])

\* The types are emitted.
TypesEmitted ==
  pc \notin {"AllocateArgSpecIds", "outputHeader", "GenerateLLVMIRInfo", "FindGlobalVars", "FindLocalArgTypes",
             "FindExtInst", "GenerateSPIRVTypes", "aborted"}

\* C8: once the types are emitted, if i8 or i32 was discovered then both
\* resolve to the id of the one OpTypeInt of width 32 in the list.
C8_OneIntTypeForI8AndI32 ==
  (TypesEmitted /\ (Contains(Types, I8) \/ Contains(Types, I32))) =>
    /\ lookupType(St, I8) = lookupType(St, I32)
    /\ \E i \in 1..Len(SPIRVInsts) :
          /\ SPIRVInsts[i].op = "OpTypeInt" /\ SPIRVInsts[i].ops[1] = MkNum(32)
          /\ SPIRVInsts[i].id = lookupType(St, I32)
          /\ \A j \in 1..Len(SPIRVInsts) :
                (SPIRVInsts[j].op = "OpTypeInt" /\ SPIRVInsts[j].ops[1] = MkNum(32)) => j = i

\* Types emitted with i8 discovered before i32.
C8_Witness ==
  TypesEmitted /\ IdFor(Types, I8) # 0 /\ IdFor(Types, I32) # 0 /\ IdFor(Types, I8) < IdFor(Types, I32)

\* The types pointed to by the discovered pointers to constant or global.
BufferPointees ==
  {Types[k].elem : k \in {i \in 1..Len(Types) : IsPointerTy(Types[i]) /\ Types[i].as \in {"Constant", "Global"}}}

\* The ids the discovered pointers to constant T and to global T resolve to.
PairIds(T) ==
  {lookupType(St, PtrTy(T, as)) : as \in {a \in {"Constant", "Global"} : Contains(Types, PtrTy(T, a))}}

\* The OpTypePointer StorageBuffer instructions with the pointee T.  (i8 and
\* i32 share an id: the type of a pointer to another pointee is not counted.)
PointersTo(T) ==
  {i \in 1..Len(SPIRVInsts) :
     /\ SPIRVInsts[i].op = "OpTypePointer"
     /\ SPIRVInsts[i].ops = <<MkEnum("StorageBuffer"), MkId(lookupType(St, T))>>
     /\ \A T2 \in BufferPointees \ {T} : SPIRVInsts[i].id \notin PairIds(T2)}

\* C9: once the types are emitted, for every pointee T the pointers to
\* constant T and to global T that were discovered resolve to the same id,
\* and at most one OpTypePointer StorageBuffer T is in the list.
C9_OnePointerForConstantAndGlobal ==
  TypesEmitted =>
    \A T \in BufferPointees : Cardinality(PairIds(T)) = 1 /\ Cardinality(PointersTo(T)) <= 1

\* Types emitted with both pointers to i32 discovered, the pointer to
\* constant first, one OpTypePointer and a run-time array of i32 in the list.
C9_Witness ==
  /\ TypesEmitted
  /\ IdFor(Types, PtrTy(I32, "Constant")) # 0 /\ IdFor(Types, PtrTy(I32, "Global")) # 0
  /\ IdFor(Types, PtrTy(I32, "Constant")) < IdFor(Types, PtrTy(I32, "Global"))
  /\ Cardinality(PointersTo(I32)) = 1
  /\ \E i \in 1..Len(SPIRVInsts) : SPIRVInsts[i].op = "OpTypeRuntimeArray" /\ SPIRVInsts[i].ops = <<MkId(lookupType(St, I32))>>

\* The constants are emitted.
ConstantsEmitted == TypesEmitted /\ pc # "GenerateSPIRVConstants"

\* Element k of a <4 x i8> constant as an unsigned byte, undef being 0.
Byte(Cst, k) ==
  CASE Cst.vk = "cds" -> Cst.elems[k] % 256
    [] Cst.vk = "cvec" -> IF Cst.cops[k].vk = "cint" THEN Cst.cops[k].v % 256 ELSE 0
    [] OTHER -> 0

BigEndian(Cst) == Byte(Cst, 1) * 16777216 + Byte(Cst, 2) * 65536 + Byte(Cst, 3) * 256 + Byte(Cst, 4)

\* Cst resolves to the id of one instruction, an OpConstant of the unified
\* integer type with the big-endian word of its bytes, and no
\* OpConstantComposite has its id or its type.
PackedIntoOneOpConstant(Cst) ==
  /\ \E i \in 1..Len(SPIRVInsts) :
        /\ SPIRVInsts[i].id = Get(ValueMap, Cst)
        /\ SPIRVInsts[i].op = "OpConstant"
        /\ SPIRVInsts[i].ops = <<MkId(lookupType(St, I32)), MkNum(BigEndian(Cst))>>
        /\ \A j \in 1..Len(SPIRVInsts) : SPIRVInsts[j].id = SPIRVInsts[i].id => j = i
  /\ \A j \in 1..Len(SPIRVInsts) :
        SPIRVInsts[j].op = "OpConstantComposite" =>
          SPIRVInsts[j].id # Get(ValueMap, Cst) /\ SPIRVInsts[j].ops[1] # MkId(lookupType(St, V4I8))

\* C10 as stated: every discovered <4 x i8> constant is packed into one
\* OpConstant.
C10_EveryVec4PackedIntoOneOpConstant ==
  ConstantsEmitted =>
    \A k \in 1..Len(Constants) : is4xi8vec(Constants[k].ty) => PackedIntoOneOpConstant(Constants[k])

\* C10, amended: every discovered <4 x i8> constant that is neither all
\* zero nor all undef is packed into one OpConstant.
C10_MixedVec4PackedIntoOneOpConstant ==
  ConstantsEmitted =>
    \A k \in 1..Len(Constants) :
       (is4xi8vec(Constants[k].ty) /\ Constants[k].vk \in {"cds", "cvec"}) => PackedIntoOneOpConstant(Constants[k])

\* Constants emitted with a vector that has an undef and a non-zero first
\* byte, and with one of all integers with a non-zero byte.
C10_Witness ==
  /\ ConstantsEmitted
  /\ \E k \in 1..Len(Constants) :
        /\ is4xi8vec(Constants[k].ty) /\ Constants[k].vk \in {"cds", "cvec"}
        /\ Byte(Constants[k], 1) # 0 /\ Byte(Constants[k], 4) = 0
        /\ PackedIntoOneOpConstant(Constants[k])

\* The constants that stand for a 32-bit word: the <4 x i8> constants that
\* are packed, and the i32 integer constants; and the word.
IsWord(Cst) == (is4xi8vec(Cst.ty) /\ Cst.vk \in {"cds", "cvec"}) \/ (Cst.ty = I32 /\ Cst.vk = "cint")
WordOf(Cst) == IF Cst.vk = "cint" THEN Cst.v ELSE BigEndian(Cst)

\* C11: once the constants are emitted, two constants of the table that
\* stand for the same 32-bit word have the same id.
C11_SameWordSameId ==
  ConstantsEmitted =>
    \A i, j \in 1..Len(Constants) :
       (IsWord(Constants[i]) /\ IsWord(Constants[j]) /\ WordOf(Constants[i]) = WordOf(Constants[j]))
          => Get(ValueMap, Constants[i]) = Get(ValueMap, Constants[j])

\* The number of instructions of the output with opcode op and first operand a.
NumWith(op, a) == Cardinality({i \in 1..Len(out.insts) : out.insts[i].op = op /\ out.insts[i].ops[1] = a})
VariablePointersEmitted ==
  /\ NumWith("OpCapability", MkEnum("VariablePointers")) >= 1
  /\ NumWith("OpExtension", MkString("SPV_KHR_storage_buffer_storage_class")) >= 1
  /\ NumWith("OpExtension", MkString("SPV_KHR_variable_pointers")) >= 1
VariablePointersAbsent ==
  /\ NumWith("OpCapability", MkEnum("VariablePointers")) = 0
  /\ NumOp(out.insts, "OpExtension") = 0
TrivialKernel ==
  /\ Len(module.funcs) = 1
  /\ module.funcs[1].kernel /\ module.funcs[1].args = <<>> /\ module.funcs[1].blocks = <<<<RetVoid>>>>

\* C12 as stated: the VariablePointers capability and the two extensions
\* are in the output exactly when an OpPtrAccessChain was generated, and the
\* kernel without parameters that only returns has OpCapability Shader as
\* its only capability and no OpExtension.
C12_VariablePointersIffPtrAccessChain ==
  pc = "done" =>
    /\ IF HasOp(out.insts, "OpPtrAccessChain") THEN VariablePointersEmitted ELSE VariablePointersAbsent
    /\ TrivialKernel => (NumOp(out.insts, "OpCapability") = 1 /\ NumWith("OpCapability", MkEnum("Shader")) = 1)

\* C12 amended: every output has the VariablePointers capability and each
\* of the two extensions exactly once, with or without an
\* OpPtrAccessChain; the trivial kernel has the capabilities Shader and
\* VariablePointers and no other.
C12_VariablePointersAlways ==
  pc = "done" =>
    /\ NumWith("OpCapability", MkEnum("VariablePointers")) = 1
    /\ NumWith("OpExtension", MkString("SPV_KHR_storage_buffer_storage_class")) = 1
    /\ NumWith("OpExtension", MkString("SPV_KHR_variable_pointers")) = 1
    /\ NumOp(out.insts, "OpExtension") = 2
    /\ TrivialKernel => (NumOp(out.insts, "OpCapability") = 2 /\ NumWith("OpCapability", MkEnum("Shader")) = 1)
C12_Witness == pc = "done" /\ TrivialKernel /\ ~HasOp(out.insts, "OpPtrAccessChain") /\ VariablePointersEmitted

\* The positions in the output of the instructions of block b of function
\* f, from its OpLabel up to the next OpLabel or OpFunctionEnd.
LabelId(f, b) == Get(ValueMap, BlockV(f, b))
BlockPositions(f, b) ==
  LET first == CHOOSE i \in 1..Len(out.insts) : out.insts[i].op = "OpLabel" /\ out.insts[i].id = LabelId(f, b)
  IN {i \in first..Len(out.insts) : \A j \in (first + 1)..i : out.insts[j].op \notin {"OpLabel", "OpFunctionEnd"}}
LastOf(P) == CHOOSE i \in P : \A j \in P : j <= i
SingleExitHeaders(F) == {h \in 1..Len(F.blocks) : isLoopHeader(F, h) /\ Cardinality(LoopFor(F, h).exits) = 1}

DifferentWorkgroupSizes ==
  \E i, j \in 1..Len(module.funcs) :
     /\ module.funcs[i].kernel /\ module.funcs[j].kernel
     /\ getMetadata(module.funcs[i]) # <<>> /\ getMetadata(module.funcs[j]) # <<>>
     /\ getMetadata(module.funcs[i]) # getMetadata(module.funcs[j])
HasWorkgroupSizeVariable == \E g \in 1..Len(module.globals) : GetBuiltin(module.globals[g].v) = "WorkgroupSize"

\* C14: the translation of a module in which two kernels have different
\* required workgroup sizes never completes without having run into
\* llvm_unreachable, with or without the WorkgroupSize variable.
C14_DifferentWorkgroupSizesAbort == (pc = "done" /\ DifferentWorkgroupSizes) => unreachable

\* C15: when the translation has aborted at llvm_unreachable, no word has
\* been written to the output stream.
C15_NothingWrittenOnAbort == pc = "aborted" => (out.header = <<>> /\ out.insts = <<>>)

\* The variables made for kernel arguments that are neither samplers nor
\* images, and the ordinal of an argument among the arguments of its kernel
\* that are not pointers to local memory.
ArgVariables ==
  {module.globals[g] : g \in {h \in 1..Len(module.globals) :
                                 module.globals[h].v.vk = "arggv" /\ module.globals[h].ty.as # "UniformConstant"}}
BindingOrdinal(A) ==
  Cardinality({i \in 1..(A.i - 1) : ~IsLocalPtr(module.funcs[FuncNamed(module, A.f)].args[i])})

\* C16: there is at most one argument variable per wrapper struct type and
\* binding ordinal (variables are never removed, so this holds at every
\* earlier point as well); the variable of an argument, made for its kernel
\* or taken over from another one, carries the argument's ordinal as its
\* binding; and no two arguments of one kernel have the same variable.
C16_OneVariablePerTypeAndBinding ==
  /\ \A G \in ArgVariables : \A H \in ArgVariables :
        (G.ty.elem = H.ty.elem /\ G.v.idx = H.v.idx) => G = H
  /\ \A A \in DOMAIN ArgumentGVMap : ArgumentGVMap[A].idx = BindingOrdinal(A)
  /\ \A A \in DOMAIN ArgumentGVMap : \A B \in DOMAIN ArgumentGVMap :
        (A.f = B.f /\ A # B) => ArgumentGVMap[A] # ArgumentGVMap[B]

\* A kernel has taken over the variable of another kernel for one argument
\* and made a new variable of the same wrapper type for another.
C16_Witness ==
  \E A \in DOMAIN ArgumentGVMap : \E B \in DOMAIN ArgumentGVMap :
     /\ A.f = B.f /\ A # B
     /\ ArgumentGVMap[A].f # A.f
     /\ ArgumentGVMap[B].f = B.f
     /\ GlobalOf(module, ArgumentGVMap[A]).ty = GlobalOf(module, ArgumentGVMap[B]).ty

\* The values of the decorations deco of id, one per OpDecorate, and the
\* lines of the descriptor map that give a binding.
DecorationsOf(id, deco) ==
  LET P == {i \in 1..Len(SPIRVInsts) : /\ SPIRVInsts[i].op = "OpDecorate"
                                        /\ SPIRVInsts[i].ops[1] = MkId(id)
                                        /\ SPIRVInsts[i].ops[2] = MkEnum(deco)}
  IN [n |-> Cardinality(P), values |-> {SPIRVInsts[i].ops[3] : i \in P}]
BindingLines == {k \in 1..Len(descriptorMapOut) : "binding" \in DOMAIN descriptorMapOut[k]}

\* C17: the variable of a kernel argument never has more than one
\* DescriptorSet and one Binding decoration; once the descriptor map has the
\* line of an argument mapped to it, it has exactly one of each, with the
\* numbers of the line, and the binding of the line is the argument's
\* ordinal among the arguments that are not pointers to local memory; and
\* at the end every such argument has exactly one line.
C17_OneDescriptorSetAndBinding ==
  /\ \A g \in 1..Len(module.globals) :
        module.globals[g].v.vk = "arggv" =>
          /\ DecorationsOf(Get(ValueMap, module.globals[g].v), "DescriptorSet").n <= 1
          /\ DecorationsOf(Get(ValueMap, module.globals[g].v), "Binding").n <= 1
  /\ \A k \in BindingLines :
        LET L == descriptorMapOut[k]
            id == Get(ValueMap, ArgumentGVMap[L.arg])
        IN /\ DecorationsOf(id, "DescriptorSet") = [n |-> 1, values |-> {MkNum(L.descriptorSet)}]
           /\ DecorationsOf(id, "Binding") = [n |-> 1, values |-> {MkNum(L.binding)}]
           /\ L.binding = BindingOrdinal(L.arg)
  /\ pc = "done" =>
        \A A \in DOMAIN ArgumentGVMap : Cardinality({k \in BindingLines : descriptorMapOut[k].arg = A}) = 1

\* The descriptor map has the lines of two arguments, of different kernels,
\* that are mapped to one variable.
C17_Witness ==
  /\ pc = "done"
  /\ \E k \in BindingLines : \E l \in BindingLines :
        /\ descriptorMapOut[k].kernel # descriptorMapOut[l].kernel
        /\ ArgumentGVMap[descriptorMapOut[k].arg] = ArgumentGVMap[descriptorMapOut[l].arg]

\* The ids of the block of a pointer-to-local argument, and the positions
\* of the instructions with a given result id.
LocalIds(A) ==
  {LocalArgMap[A].variable_id, LocalArgMap[A].array_size_id, LocalArgMap[A].array_type_id,
   LocalArgMap[A].ptr_array_type_id, LocalArgMap[A].first_elem_ptr_id}
ResultsOf(id) == {i \in 1..Len(SPIRVInsts) : SPIRVInsts[i].id = id}
IsOnly(id, op, k, operand) ==
  /\ Cardinality(ResultsOf(id)) = 1
  /\ \A i \in ResultsOf(id) : SPIRVInsts[i].op = op /\ SPIRVInsts[i].ops[k] = operand

\* C18: the ids of a pointer-to-local argument are five consecutive ids,
\* apart from the blocks of the other arguments and below every id an
\* emitted instruction has outside the blocks; in the finished module they
\* are the ids of the array-length OpSpecConstant, of the OpTypeArray of that
\* length, of the Workgroup OpTypePointer to that array, of the Workgroup
\* OpVariable of that pointer type and of nothing but the OpAccessChain on
\* that variable, which is there when the argument is used; and exactly one
\* OpDecorate SpecId gives the spec constant the argument's spec id.
C18_FiveIdsPerLocalArg ==
  \A A \in DOMAIN LocalArgMap :
    LET info == LocalArgMap[A]
        lo == CHOOSE m \in LocalIds(A) : \A n \in LocalIds(A) : m <= n
        SpecIds == {i \in 1..Len(SPIRVInsts) : /\ SPIRVInsts[i].op = "OpDecorate"
                                                /\ SPIRVInsts[i].ops[2] = MkEnum("SpecId")
                                                /\ \/ SPIRVInsts[i].ops[1] = MkId(info.array_size_id)
                                                   \/ SPIRVInsts[i].ops[3] = MkNum(ArgSpecIdMap[A])}
    IN /\ LocalIds(A) = lo..(lo + 4)
       /\ \A B \in DOMAIN LocalArgMap : B # A => LocalIds(A) \cap LocalIds(B) = {}
       /\ \A i \in 1..Len(SPIRVInsts) :
             \/ SPIRVInsts[i].id = 0
             \/ \E B \in DOMAIN LocalArgMap : SPIRVInsts[i].id \in LocalIds(B)
             \/ SPIRVInsts[i].id > lo + 4
       /\ pc = "done" =>
             /\ IsOnly(info.array_size_id, "OpSpecConstant", 2, MkNum(1))
             /\ IsOnly(info.array_type_id, "OpTypeArray", 2, MkId(info.array_size_id))
             /\ IsOnly(info.ptr_array_type_id, "OpTypePointer", 1, MkEnum("Workgroup"))
             /\ IsOnly(info.ptr_array_type_id, "OpTypePointer", 2, MkId(info.array_type_id))
             /\ IsOnly(info.variable_id, "OpVariable", 1, MkId(info.ptr_array_type_id))
             /\ IsOnly(info.variable_id, "OpVariable", 2, MkEnum("Workgroup"))
             /\ IF Users(module, A.f, A) = {} THEN ResultsOf(info.first_elem_ptr_id) = {}
                ELSE IsOnly(info.first_elem_ptr_id, "OpAccessChain", 2, MkId(info.variable_id))
             /\ Cardinality(SpecIds) = 1
             /\ \A i \in SpecIds : SPIRVInsts[i].ops = <<MkId(info.array_size_id), MkEnum("SpecId"), MkNum(ArgSpecIdMap[A])>>

\* A module finished without reaching llvm_unreachable, of a kernel with two
\* pointer-to-local arguments, one of them used.
C18_Witness ==
  /\ pc = "done"
  /\ ~unreachable
  /\ \E A \in DOMAIN LocalArgMap : \E B \in DOMAIN LocalArgMap :
        A # B /\ A.f = B.f /\ ResultsOf(LocalArgMap[A].first_elem_ptr_id) # {}

\* The positions in the output of the instruction produced for a source
\* instruction: the one with its result id when it has a value, the branch
\* or return of its block when it is a terminator.
ProducedAt(iv) ==
  LET I == InstAt(module, iv)
      P == BlockPositions(iv.f, iv.b)
  IN CASE I.op \in {"add", "load", "getelementptr", "phi", "call"} ->
            {i \in P : out.insts[i].id # 0 /\ out.insts[i].id = Get(ValueMap, iv)}
       [] I.op \in {"br", "ret"} ->
            {i \in P : out.insts[i].op \in {"OpBranch", "OpBranchConditional", "OpReturn", "OpReturnValue"}}
       [] OTHER -> {}
InOrder(iv, jv) == \A p \in ProducedAt(iv) : \A q \in ProducedAt(jv) : p < q

\* C19: in the finished module, within every basic block, the instructions
\* produced for two source instructions stand in the order of the source
\* instructions, deferred or not.
C19_SourceOrderKept ==
  pc = "done" =>
    \A fi \in 1..Len(module.funcs) : \A b \in 1..Len(module.funcs[fi].blocks) :
      \A i \in 1..Len(module.funcs[fi].blocks[b]) : \A j \in (i + 1)..Len(module.funcs[fi].blocks[b]) :
        InOrder(InstV(module.funcs[fi].name, b, i), InstV(module.funcs[fi].name, b, j))

\* The function with index fi is the fi-th OpFunction of the output and its
\* block b the b-th OpLabel after it: the position of the OpFunction, its
\* result id, the position of the OpLabel, its result id, and the positions
\* of the instructions of the block.
FunctionPos(fi) ==
  CHOOSE p \in 1..Len(out.insts) :
    out.insts[p].op = "OpFunction" /\ Cardinality({q \in 1..p : out.insts[q].op = "OpFunction"}) = fi
OpFunctionId(fi) == out.insts[FunctionPos(fi)].id
OpLabelPos(fi, b) ==
  CHOOSE p \in FunctionPos(fi)..Len(out.insts) :
    out.insts[p].op = "OpLabel" /\ Cardinality({q \in FunctionPos(fi)..p : out.insts[q].op = "OpLabel"}) = b
OpLabelId(fi, b) == out.insts[OpLabelPos(fi, b)].id
BlockRange(fi, b) ==
  {i \in OpLabelPos(fi, b)..Len(out.insts) :
     \A j \in (OpLabelPos(fi, b) + 1)..i : out.insts[j].op \notin {"OpLabel", "OpFunctionEnd"}}
OnlyIn(P, op, operands) ==
  /\ Cardinality({i \in P : out.insts[i].op = op}) = 1
  /\ \A i \in P : out.insts[i].op = op => \A k \in DOMAIN operands : out.insts[i].ops[k] = operands[k]

\* What the instruction at position b, i of function fi refers to, in the
\* finished module: a branch names its successors, a phi its incoming
\* blocks, a call of a function of the module the function.
RefersRight(fi, b, i) ==
  LET F == module.funcs[fi]
      I == F.blocks[b][i]
      P == BlockRange(fi, b)
      Id(bb) == MkId(OpLabelId(fi, bb.b))
      res == {p \in P : out.insts[p].id # 0 /\ out.insts[p].id = Get(ValueMap, InstV(F.name, b, i))}
  IN CASE I.op = "br" /\ Len(I.ops) = 1 -> OnlyIn(P, "OpBranch", <<Id(I.ops[1])>>)
       [] I.op = "br" /\ Len(I.ops) = 3 ->
            /\ Cardinality({p \in P : out.insts[p].op = "OpBranchConditional"}) = 1
            /\ \A p \in P : out.insts[p].op = "OpBranchConditional" =>
                  out.insts[p].ops[2] = Id(I.ops[3]) /\ out.insts[p].ops[3] = Id(I.ops[2])
            /\ \A p \in P : out.insts[p].op = "OpSelectionMerge" => out.insts[p].ops[1] = Id(I.ops[2])
       [] I.op = "phi" ->
            /\ Cardinality(res) = 1
            /\ \A p \in res : /\ out.insts[p].op = "OpPhi"
                                /\ \A k \in 1..Len(I.blocks) : out.insts[p].ops[2 * k + 1] = Id(I.blocks[k])
       [] I.op = "call" /\ \E g \in 1..Len(module.funcs) : module.funcs[g].name = I.callee ->
            /\ Cardinality(res) = 1
            /\ \A p \in res : /\ out.insts[p].op = "OpFunctionCall"
                                /\ out.insts[p].ops[2] = MkId(OpFunctionId(FuncNamed(module, I.callee)))
       [] OTHER -> TRUE

\* C20: in the finished module every branch, selection merge and phi names
\* its blocks by the result ids of their OpLabel, every call of a function
\* of the module names it by the result id of its OpFunction, and the
\* OpLoopMerge of a loop with one exit block names that block and a block of
\* the loop by the result ids of their OpLabel.
C20_LabelsAndCalleesResolved ==
  pc = "done" =>
    \A fi \in 1..Len(module.funcs) : \A b \in 1..Len(module.funcs[fi].blocks) :
      /\ \A i \in 1..Len(module.funcs[fi].blocks[b]) : RefersRight(fi, b, i)
      /\ b \in SingleExitHeaders(module.funcs[fi]) =>
            \A p \in BlockRange(fi, b) :
              out.insts[p].op = "OpLoopMerge" =>
                /\ \A e \in LoopFor(module.funcs[fi], b).exits : out.insts[p].ops[1] = MkId(OpLabelId(fi, e))
                /\ \E c \in LoopFor(module.funcs[fi], b).blocks : out.insts[p].ops[2] = MkId(OpLabelId(fi, c))

\* A module finished without reaching llvm_unreachable in which a call
\* stands before the OpFunction of the function it calls and the block of
\* a loop header has its OpPhi and OpLoopMerge.
C20_Witness ==
  /\ pc = "done"
  /\ ~unreachable
  /\ \E p \in 1..Len(out.insts) : \E q \in (p + 1)..Len(out.insts) :
        /\ out.insts[p].op = "OpFunctionCall"
        /\ out.insts[q].op = "OpFunction"
        /\ out.insts[p].ops[2] = MkId(out.insts[q].id)
  /\ HasOp(out.insts, "OpPhi")
  /\ HasOp(out.insts, "OpLoopMerge")

\* The instructions that end a block and those that announce its merge.
Terminators == {"OpBranch", "OpBranchConditional", "OpReturn", "OpReturnValue"}
MergeOps == {"OpLoopMerge", "OpSelectionMerge"}

\* C21: in the finished module every block of a function starts with its
\* OpLabel, has its OpPhi before every instruction that is neither an OpPhi
\* nor the OpVariable of an alloca, ends with its only terminator, has a
\* merge instruction nowhere but immediately before the terminator, and
\* holds the instructions of its own phis, calls and branch: as many OpPhi
\* and terminators as the source block has, and each phi and call under the
\* id it was given.
C21_BlocksWellFormed ==
  pc = "done" =>
    \A fi \in 1..Len(module.funcs) : \A b \in 1..Len(module.funcs[fi].blocks) :
      LET BB == module.funcs[fi].blocks[b]
          P == BlockRange(fi, b)
          last == CHOOSE i \in P : \A j \in P : j <= i
          Deferred == {i \in 1..Len(BB) : BB[i].op \in {"phi", "call"} /\ BB[i].callee \notin ReadImageNames}
      IN /\ out.insts[OpLabelPos(fi, b)].op = "OpLabel"
         /\ \A p \in P : \A q \in P :
               (out.insts[q].op = "OpPhi" /\ out.insts[p].op \notin {"OpLabel", "OpPhi", "OpVariable"}) => q < p
         /\ out.insts[last].op \in Terminators
         /\ \A p \in P : out.insts[p].op \in Terminators => p = last
         /\ \A p \in P : out.insts[p].op \in MergeOps => p + 1 = last
         /\ Cardinality({p \in P : out.insts[p].op \in MergeOps}) <= 1
         /\ Cardinality({p \in P : out.insts[p].op = "OpPhi"}) = Cardinality({i \in 1..Len(BB) : BB[i].op = "phi"})
         /\ \A i \in Deferred :
               \E p \in P : out.insts[p].id = Get(ValueMap, InstV(module.funcs[fi].name, b, i))

\* A module finished without reaching llvm_unreachable in which the block of
\* a loop header has an OpPhi, an OpLoopMerge and a conditional branch, and
\* another block a call before its branch.
C21_Witness ==
  /\ pc = "done"
  /\ ~unreachable
  /\ \E b \in 1..Len(module.funcs[1].blocks) :
        /\ \E p \in BlockRange(1, b) : out.insts[p].op = "OpPhi"
        /\ \E p \in BlockRange(1, b) : out.insts[p].op = "OpLoopMerge"
  /\ \E b \in 1..Len(module.funcs[1].blocks) :
        \E p \in BlockRange(1, b) : out.insts[p].op = "OpFunctionCall" /\ out.insts[p + 1].op = "OpBranch"

\* A block that is the target of a back edge: one of its predecessors is
\* dominated by it.
HasBackEdgeTo(F, h) == \E t \in 1..Len(F.blocks) : h \in Successors(F, t) /\ dominates(F, h, t)

\* C22: in the finished module, the block of a branch that is a loop header
\* holds one OpLoopMerge and no OpSelectionMerge; the block of a conditional
\* branch that is not a loop header holds no OpLoopMerge, and holds an
\* OpSelectionMerge, immediately before its OpBranchConditional and naming
\* the label of the second successor of the branch, exactly when neither
\* successor is a loop header; the block of an unconditional branch that is
\* not a loop header holds no merge instruction.
C22_MergeInstructionChosen ==
  pc = "done" =>
    \A fi \in 1..Len(module.funcs) : \A b \in 1..Len(module.funcs[fi].blocks) :
      LET F == module.funcs[fi]
          I == F.blocks[b][Len(F.blocks[b])]
          P == BlockRange(fi, b)
          Loops == {p \in P : out.insts[p].op = "OpLoopMerge"}
          Selections == {p \in P : out.insts[p].op = "OpSelectionMerge"}
          isConditional == Len(I.ops) = 3
      IN I.op = "br" =>
           IF HasBackEdgeTo(F, b)
           THEN Cardinality(Loops) = 1 /\ Selections = {}
           ELSE /\ Loops = {}
                /\ Cardinality(Selections) <= 1
                /\ (Selections # {}) <=>
                     (isConditional /\ ~HasBackEdgeTo(F, I.ops[2].b) /\ ~HasBackEdgeTo(F, I.ops[3].b))
                /\ \A p \in Selections :
                     /\ out.insts[p + 1].op = "OpBranchConditional"
                     /\ out.insts[p].ops[1] = MkId(OpLabelId(fi, I.ops[2].b))

\* A finished module in which a conditional branch outside a loop header
\* has a loop header for successor and got no merge instruction, and an
\* unconditional branch in a loop header got its OpLoopMerge.
C22_Witness ==
  /\ pc = "done"
  /\ ~unreachable
  /\ \E b \in 1..Len(module.funcs[1].blocks) :
        LET F == module.funcs[1]
            I == F.blocks[b][Len(F.blocks[b])]
        IN /\ I.op = "br" /\ Len(I.ops) = 3
           /\ ~HasBackEdgeTo(F, b)
           /\ HasBackEdgeTo(F, I.ops[3].b) \/ HasBackEdgeTo(F, I.ops[2].b)
           /\ \A p \in BlockRange(1, b) : out.insts[p].op \notin MergeOps
  /\ \E b \in 1..Len(module.funcs[1].blocks) :
        LET F == module.funcs[1]
            I == F.blocks[b][Len(F.blocks[b])]
        IN /\ I.op = "br" /\ Len(I.ops) = 1
           /\ HasBackEdgeTo(F, b)
           /\ \E p \in BlockRange(1, b) : out.insts[p].op = "OpLoopMerge"

\* The k-th smallest member of a set of numbers.
NthOf(S, k) == CHOOSE x \in S : Cardinality({y \in S : y < x}) = k - 1

\* The OpenCL builtins lowered as an extended instruction and a follow-up
\* instruction, with the opcode and the constant of the follow-up.
FollowUpOf(name) ==
  CASE name \in {"_Z3clzi", "_Z3clzj"} -> [op |-> "OpISub", literal |-> MkNum(31)]
    [] name \in {"_Z6acospif", "_Z6asinpif", "_Z7atan2piff"} -> [op |-> "OpFMul", literal |-> MkFloat(kOneOverPi)]
    [] OTHER -> [op |-> "none"]

\* The instructions of the written module that declare the constant whose
\* literal is given.
ConstantIds(literal) ==
  {out.insts[q].id : q \in {i \in 1..Len(out.insts) : out.insts[i].op = "OpConstant" /\ out.insts[i].ops[2] = literal}}

\* C23: in the finished module of a kernel whose calls are all calls of
\* builtins lowered to extended instructions, the k-th such call of a block
\* has the k-th OpExtInst of the block; when the builtin is clz, acospi,
\* asinpi or atan2pi and that OpExtInst has result id r, the next
\* instruction is the follow-up (OpISub of the constant 31, OpFMul of the
\* constant 1/pi) with result id r + 1 and operands (type, constant, r), no
\* other instruction has r as an operand, and every call that takes the
\* value of the call as its m-th argument has r + 1 as the m-th argument of
\* its OpExtInst.
C23_FollowUpInstruction ==
  pc = "done" =>
    \A fi \in 1..Len(module.funcs) : \A b \in 1..Len(module.funcs[fi].blocks) :
      LET BB == module.funcs[fi].blocks[b]
          f == module.funcs[fi].name
          Calls == {i \in 1..Len(BB) : BB[i].op = "call"}
          P == BlockRange(fi, b)
          E == {p \in P : out.insts[p].op = "OpExtInst"}
          ExtOf(i) == NthOf(E, Cardinality({j \in Calls : j <= i}))
      IN (\E i \in Calls : FollowUpOf(BB[i].callee).op # "none") =>
           /\ Cardinality(E) = Cardinality(Calls)
           /\ \A i \in Calls :
                 LET p == ExtOf(i)
                     r == out.insts[p].id
                     Follow == FollowUpOf(BB[i].callee)
                     value == IF Follow.op = "none" THEN r ELSE r + 1
                 IN /\ r # 0
                    /\ Follow.op # "none" =>
                         /\ out.insts[p + 1].op = Follow.op
                         /\ out.insts[p + 1].id = r + 1
                         /\ Len(out.insts[p + 1].ops) = 3
                         /\ out.insts[p + 1].ops[2].t = "id" /\ out.insts[p + 1].ops[2].v \in ConstantIds(Follow.literal)
                         /\ out.insts[p + 1].ops[3] = MkId(r)
                         /\ \A q \in 1..Len(out.insts) : \A m \in 1..Len(out.insts[q].ops) :
                               out.insts[q].ops[m] = MkId(r) => q = p + 1
                    /\ \A j \in Calls : \A m \in 1..(Len(BB[j].ops) - 1) :
                         BB[j].ops[m] = InstV(f, b, i) => out.insts[ExtOf(j)].ops[m + 3] = MkId(value)

\* A finished module in which a call of atan2pi takes the value of a call
\* of acospi for both arguments: two OpExtInst, each followed by its OpFMul.
C23_Witness ==
  /\ pc = "done"
  /\ ~unreachable
  /\ Len(module.funcs[1].blocks[1]) = 3
  /\ module.funcs[1].blocks[1][1].callee = "_Z6acospif"
  /\ module.funcs[1].blocks[1][2].callee = "_Z7atan2piff"
  /\ NumOp(out.insts, "OpExtInst") = 2
  /\ NumOp(out.insts, "OpFMul") = 2

\* The position in the written module of the instruction with result id id.
PositionOf(id) == CHOOSE p \in 1..Len(out.insts) : out.insts[p].id = id

ArrayLengths == {Types[i].n : i \in {j \in 1..Len(Types) : Types[j].k = "array"}}

\* C25: in the finished module, for every length n of an array type of the
\* type table exactly one OpConstant of the 32-bit integer type has the
\* value n.
C25_OneLengthConstant ==
  pc = "done" =>
    \A n \in ArrayLengths :
      Cardinality({p \in 1..Len(out.insts) :
                     /\ out.insts[p].op = "OpConstant"
                     /\ out.insts[p].ops = <<MkId(Get(TypeMap, I32)), MkNum(n)>>}) = 1

\* C26: in the finished module, the variable a pointer argument of a kernel
\* (no image, no sampler) is mapped to is in the address space of the
\* argument: a variable in the
\* constant address space stands for pointers to constant memory only, a
\* variable in the global address space for pointers to global memory only.
C26_VariableInAddressSpaceOfArgument ==
  pc = "done" =>
    \A Arg \in DOMAIN ArgumentGVMap :
      LET ArgTy == TypeOf(module, Arg)
      IN (IsPointerTy(ArgTy) /\ ~IsOpaqueStruct(ArgTy.elem) /\ ArgTy.as \in {"Constant", "Global"}) =>
           TypeOf(module, ArgumentGVMap[Arg]).as = ArgTy.as

\* The instruction written for the value of a source instruction.
WrittenFor(iv) == out.insts[PositionOf(Get(ValueMap, iv))]

\* C27: in the finished module, the instruction written for an xor of i1
\* with one constant operand c and one other operand x, in either position,
\* computes x xor c whatever the value of x: as an OpLogicalNot of x it
\* computes the negation of x, as an OpLogicalNotEqual of the two operands
\* their difference.
C27_XorWithConstantComputed ==
  pc = "done" =>
    \A fi \in 1..Len(module.funcs) : \A b \in 1..Len(module.funcs[fi].blocks) :
      \A i \in 1..Len(module.funcs[fi].blocks[b]) :
        LET I == module.funcs[fi].blocks[b][i]
            c == IF IsConstant(I.ops[1]) THEN I.ops[1] ELSE I.ops[2]
            x == IF IsConstant(I.ops[1]) THEN I.ops[2] ELSE I.ops[1]
            O == WrittenFor(InstV(module.funcs[fi].name, b, i))
            Computed(xval) ==
              CASE O.op = "OpLogicalNot" /\ O.ops[2] = MkId(Get(ValueMap, x)) -> {~xval}
                [] O.op = "OpLogicalNotEqual" /\ {O.ops[2], O.ops[3]} = {MkId(Get(ValueMap, x)), MkId(Get(ValueMap, c))} -> {xval # (c.v # 0)}
                [] OTHER -> {}
        IN (I.op = "xor" /\ I.ty = I1 /\ IsConstant(c) /\ ~IsConstant(x)) =>
             \A xval \in BOOLEAN : Computed(xval) = {xval # (c.v # 0)}

\* The value of the constant declared under an id.
ConstantValue(id) ==
  LET O == out.insts[PositionOf(id)]
  IN IF O.op = "OpConstantNull" THEN 0 ELSE O.ops[2].v

\* Bitwise and of two natural numbers.
RECURSIVE BitwiseAnd(_, _)
BitwiseAnd(a, m) == IF a = 0 \/ m = 0 THEN 0 ELSE (a % 2) * (m % 2) + 2 * BitwiseAnd(a \div 2, m \div 2)

RECURSIVE TwoTo(_)
TwoTo(k) == IF k = 0 THEN 1 ELSE 2 * TwoTo(k - 1)

\* C28: in the finished module, the two instructions written for an
\* extractelement with the constant index i on a constant <4 x i8> of the
\* integers (e0, e1, e2, e3), an OpShiftRightLogical of the constant
\* written for the vector and an OpBitwiseAnd of its result, compute e_i.
C28_ExtractOfPackedConstant ==
  pc = "done" =>
    \A fi \in 1..Len(module.funcs) : \A b \in 1..Len(module.funcs[fi].blocks) :
      \A i \in 1..Len(module.funcs[fi].blocks[b]) :
        LET I == module.funcs[fi].blocks[b][i]
            Vec == I.ops[1]
            e(k) == IF Vec.vk = "caz" THEN 0 ELSE Vec.elems[k + 1]
            And == WrittenFor(InstV(module.funcs[fi].name, b, i))
            Shift == out.insts[PositionOf(And.ops[2].v)]
            shifted == ConstantValue(Shift.ops[2].v) \div TwoTo(ConstantValue(Shift.ops[3].v))
        IN (I.op = "extractelement" /\ Vec.vk \in {"caz", "cds"} /\ Vec.ty = V4I8 /\ I.ops[2].vk = "cint") =>
             /\ And.op = "OpBitwiseAnd"
             /\ Shift.op = "OpShiftRightLogical"
             /\ BitwiseAnd(shifted, ConstantValue(And.ops[3].v)) = e(I.ops[2].v)

\* C29: in the finished module, the instruction written for an
\* insertelement on a vector that is not <4 x i8>, with an index that is no
\* constant, is an OpVectorInsertDynamic of the result type, the vector
\* operand, the element operand and the index operand, in this order.
C29_VectorInsertDynamicOperands ==
  pc = "done" =>
    \A fi \in 1..Len(module.funcs) : \A b \in 1..Len(module.funcs[fi].blocks) :
      \A i \in 1..Len(module.funcs[fi].blocks[b]) :
        LET I == module.funcs[fi].blocks[b][i]
            O == WrittenFor(InstV(module.funcs[fi].name, b, i))
        IN (I.op = "insertelement" /\ ~is4xi8vec(I.ty) /\ I.ops[3].vk # "cint") =>
             /\ O.op = "OpVectorInsertDynamic"
             /\ O.ops = <<MkId(Get(TypeMap, I.ty)), MkId(Get(ValueMap, I.ops[1])),
                          MkId(Get(ValueMap, I.ops[2])), MkId(Get(ValueMap, I.ops[3]))>>

\* ------------------------------------------------------------------------
\* FindType call by call.  A named struct type is known by its name, and the
\* module keeps the element types of every named struct (structs), so that
\* a struct may hold a pointer to itself.  A frame of stack is a call of
\* FindType: its type and the number of the recursive call it makes next
\* (0 at its entry).
\* ------------------------------------------------------------------------

MaxDepth == 8

\* Modules that consist of named struct types, with the type that is handed
\* to FindType: structs with a pointer to themselves, directly or through
\* another struct, an array and a pointer, and structs without.
TypeModules ==
  LET Named(name) == [k |-> "named", name |-> name]
      node == Named("node")
      other == Named("other")
      Ptr(ty) == PtrTy(ty, "Private")
      Tables == {[n \in {"node"} |-> <<Ptr(node)>>],
                 [n \in {"node"} |-> <<I32, PtrTy(node, "Global")>>],
                 [n \in {"node", "other"} |-> IF n = "node" THEN <<I32, Ptr(other)>> ELSE <<ArrayTy(Ptr(node), 2)>>],
                 [n \in {"node", "other"} |-> IF n = "node" THEN <<I32, Ptr(FloatTy)>> ELSE <<FloatTy, Ptr(node)>>],
                 [n \in {"node"} |-> <<I32, PtrTy(FloatTy, "Global"), VecTy(FloatTy, 2)>>]}
      Roots(t) == {node, Ptr(node), ArrayTy(node, 2), StructTy(<<node, I32>>), FuncTy(VoidTy, <<Ptr(node), I32>>),
                   PtrTy(OpaqueTy("opencl.sampler_t"), "Constant"), StructTy(<<SamplerArg, node>>)}
                  \cup {Named(n) : n \in DOMAIN t}
  IN UNION {{[funcs |-> <<>>, globals |-> <<>>, structs |-> t, root |-> r] : r \in Roots(t)} : t \in Tables}

\* The types on which FindType(Ty) calls itself, in order, when Ty is not
\* in the type list: the pointee and the pointer to it in UniformConstant
\* for a pointer to constant or global memory whose pointee is an opaque
\* struct, otherwise i32 for an array, and the subtypes (the element types
\* that the module keeps for a named struct).
FindTypeCalls(M, Ty) ==
  IF IsPointerTy(Ty) /\ Ty.as \in {"Constant", "Global"} /\ IsOpaqueStruct(Ty.elem)
  THEN <<Ty.elem, PtrTy(Ty.elem, "UniformConstant")>>
  ELSE (IF Ty.k = "array" THEN <<I32>> ELSE <<>>) \o (IF Ty.k = "named" THEN M.structs[Ty.name] ELSE Subtypes(Ty))

InitFindType ==
  /\ pc = "FindType"
  /\ fn = 0
  /\ \E M \in TypeModules :
       LET s == Fresh(M)
       IN /\ module = s.module
          /\ out = s.out
          /\ patchBoundOffset = s.patchBoundOffset
          /\ nextID = s.nextID
          /\ nodes = s.nodes
          /\ Types = s.Types
          /\ Constants = s.Constants
          /\ TypeMap = s.TypeMap
          /\ ImageTypeMap = s.ImageTypeMap
          /\ ValueMap = s.ValueMap
          /\ AllocatedValueMap = s.AllocatedValueMap
          /\ SPIRVInsts = s.SPIRVInsts
          /\ ArgumentGVMap = s.ArgumentGVMap
          /\ ArgumentGVIDMap = s.ArgumentGVIDMap
          /\ EntryPointVec = s.EntryPointVec
          /\ DeferredInstVec = s.DeferredInstVec
          /\ EntryPointInterfacesVec = s.EntryPointInterfacesVec
          /\ OpExtInstImportID = s.OpExtInstImportID
          /\ BuiltinDimensionVec = s.BuiltinDimensionVec
          /\ HasVariablePointers = s.HasVariablePointers
          /\ TypesNeedingArrayStride = s.TypesNeedingArrayStride
          /\ GVarWithEmittedBindingInfo = s.GVarWithEmittedBindingInfo
          /\ LocalArgs = s.LocalArgs
          /\ LocalArgMap = s.LocalArgMap
          /\ NextDescriptorSetIndex = s.NextDescriptorSetIndex
          /\ ArgSpecIdMap = s.ArgSpecIdMap
          /\ constant_i32_zero_id_ = s.constant_i32_zero_id_
          /\ descriptorMapOut = s.descriptorMapOut
          /\ unreachable = s.unreachable
          /\ stack = <<[Ty |-> M.root, next |-> 0]>>

\* The entry of FindType: a type of the list makes the call return.
FindTypeEntry ==
  LET Top == stack[Len(stack)]
      Returned == SubSeq(stack, 1, Len(stack) - 1)
  IN /\ pc = "FindType"
     /\ Top.next = 0
     /\ IF IdFor(Types, Top.Ty) # 0
        THEN stack' = Returned /\ pc' = IF Returned = <<>> THEN "returned" ELSE pc
        ELSE stack' = [stack EXCEPT ![Len(stack)].next = 1] /\ pc' = pc
     /\ fn' = fn
     /\ Assign(St)

\* A recursive call: a new frame, while the stack has room for it.
FindTypeCall ==
  LET Top == stack[Len(stack)]
  IN /\ pc = "FindType"
     /\ Top.next \in 1..Len(FindTypeCalls(module, Top.Ty))
     /\ Len(stack) < MaxDepth
     /\ stack' = Append([stack EXCEPT ![Len(stack)].next = @ + 1], [Ty |-> FindTypeCalls(module, Top.Ty)[Top.next], next |-> 0])
     /\ pc' = pc
     /\ fn' = fn
     /\ Assign(St)

\* A recursive call for which the stack has no room.
FindTypeOverflow ==
  LET Top == stack[Len(stack)]
  IN /\ pc = "FindType"
     /\ Top.next \in 1..Len(FindTypeCalls(module, Top.Ty))
     /\ Len(stack) = MaxDepth
     /\ pc' = "overflow"
     /\ stack' = stack
     /\ fn' = fn
     /\ Assign(St)

\* The end of FindType: after the recursive calls the type is inserted,
\* unless the call was one on a pointer to an opaque struct, which has
\* returned after its two calls, and the call returns.
FindTypeReturn ==
  LET Top == stack[Len(stack)]
      Returned == SubSeq(stack, 1, Len(stack) - 1)
      Redirected == IsPointerTy(Top.Ty) /\ Top.Ty.as \in {"Constant", "Global"} /\ IsOpaqueStruct(Top.Ty.elem)
  IN /\ pc = "FindType"
     /\ Top.next > Len(FindTypeCalls(module, Top.Ty))
     /\ stack' = Returned
     /\ pc' = IF Returned = <<>> THEN "returned" ELSE pc
     /\ fn' = fn
     /\ Assign(IF Redirected THEN St ELSE [St EXCEPT !.Types = UVInsert(@, Top.Ty)])

NextFindType ==
  \/ FindTypeEntry
  \/ FindTypeCall
  \/ FindTypeOverflow
  \/ FindTypeReturn

\* FindType runs on: a step that can be taken is taken.
FindTypeSpec == InitFindType /\ [][NextFindType]_vars /\ WF_vars(NextFindType)

\* C30: FindType returns for every type, and no type is twice in the type
\* list, also when a named struct holds a pointer to itself, directly or
\* through other struct, array or pointer types.
C30_FindTypeTerminates ==
  /\ <>(pc = "returned")
  /\ [](\A i \in 1..Len(Types) : \A j \in 1..Len(Types) : Types[i] = Types[j] => i = j)
====
